---- MODULE Spec2Model ----
(***************************************************************************)
(* Model of the context-aware command interpretation engine of the         *)
(* persistent-memory SDK: CommandParser (command-parser.ts), ContextEngine *)
(* (context-engine.ts), SessionInitializer (session-initializer.ts),       *)
(* RulesClient.createDefaultRules (rules-client.ts) and the MemoryClient   *)
(* session methods (memory-client.ts).                                     *)
(*                                                                         *)
(* Representation.  A JavaScript string of free text is a sequence of      *)
(* atoms; an atom is a TLA+ string standing for one character ("G", " ")   *)
(* or for an indivisible piece of text ("blocked", a message literal).     *)
(* The empty sequence is the empty string.  Identifiers (task states,      *)
(* action tags, template names, property names) are single atoms.  A       *)
(* JavaScript object is a function from property names to values; a        *)
(* property that is undefined is absent from the DOMAIN.                   *)
(***************************************************************************)
EXTENDS Integers, Sequences, FiniteSets, TLC

VARIABLES
  suppliedRules,  \* the rule list last given to the CommandParser
  rules,          \* CommandParser.rules: active rules, sorted by priority
  commandMap,     \* CommandParser.commandMap: lower-cased trigger -> rules
  context,        \* ContextEngine.context (the snapshot handed to the parser)
  lastCollected,  \* ContextEngine.lastCollected: [at |-> time] or Undefined
  now,            \* Date.now() in seconds
  store,          \* records of the PromptingRules table of the Rule Store
  rulesCache,     \* RulesClient.cache entry for this user, or Undefined
  session,        \* MemoryClient.sessionContext is set
  op,             \* name of the last operation that ran
  input,          \* raw input of the last parse / processCommand
  parsed,         \* ParsedCommand returned by the last parse
  matches,        \* PromptingRule[] returned by the last matchRules
  best,           \* [rule |-> r] returned by the last getBestMatch, or Null
  executed,       \* [rule |-> r] given to executeAction by the last operation, or Null
  result,         \* ActionResult returned by the last operation
  engineOptions,  \* ContextEngine.cacheEnabled and ContextEngine.cacheTTL
  probed,         \* [git, file]: probe outcomes the last operation consumed, or Null
  argument,       \* [value |-> v]: argument of the last ContextEngine call, or Null
  issued,         \* every command given to recordCommand so far, in call order
  cache,          \* Cache.cache of a Cache on its own: entries in insertion order
  cacheConfig,    \* Cache.config of that Cache
  handle,         \* the object sessionContext.context refers to, or Null
  retrying,       \* one call of retry(fn, options) in progress, or Null
  projectContent, \* records of the ProjectContent table
  calls           \* calls of the RulesClient and the initializer in flight

vars == <<suppliedRules, rules, commandMap, context, lastCollected, now, store, rulesCache, session,
          op, input, parsed, matches, best, executed, result,
          engineOptions, probed, argument, issued, cache, cacheConfig, handle,
          retrying, projectContent, calls>>

(***************************************************************************)
(* Bounds of the model.                                                    *)
(***************************************************************************)
MaxRules == 2        \* longest rule list handed to the parser
MaxCommands == 2     \* processCommand calls in one session
MaxTime == 300       \* the clock stops here
MaxCollectTime == 60 \* the clock of the context engine on its own stops here
MaxRecorded == 52    \* recordCommand calls on one context engine

(***************************************************************************)
(* undefined / null                                                        *)
(***************************************************************************)
Undefined == [undefined |-> TRUE]
Null == [null |-> TRUE]

Get(obj, key, dflt) == IF key \in DOMAIN obj THEN obj[key] ELSE dflt

Has(obj, key) == key \in DOMAIN obj

Assign(obj, key, val) == (key :> val) @@ obj

\* obj.key = undefined
Remove(obj, key) == [k \in (DOMAIN obj) \ {key} |-> obj[k]]

(***************************************************************************)
(* String primitives                                                       *)
(***************************************************************************)
Whitespace == {" ", "\t", "\n"}

\* String.prototype.toLowerCase on one atom
UpperToLower ==
  [G |-> "g", O |-> "o", D |-> "d", N |-> "n", E |-> "e", S |-> "s",
   H |-> "h", I |-> "i", P |-> "p", Z |-> "z",
   Blocked |-> "blocked", BLOCKED |-> "blocked", Coding |-> "coding",
   TS |-> "ts", True |-> "true", Manual |-> "manual"]

LowerAtom(a) == IF a \in DOMAIN UpperToLower THEN UpperToLower[a] ELSE a

ToLowerCase(s) == [i \in 1..Len(s) |-> LowerAtom(s[i])]

RECURSIVE TrimStart(_)
TrimStart(s) ==
  IF s # <<>> /\ Head(s) \in Whitespace THEN TrimStart(Tail(s)) ELSE s

RECURSIVE TrimEnd(_)
TrimEnd(s) ==
  IF s # <<>> /\ s[Len(s)] \in Whitespace
  THEN TrimEnd(SubSeq(s, 1, Len(s) - 1)) ELSE s

\* String.prototype.trim
Trim(s) == TrimEnd(TrimStart(s))

\* String.prototype.split(/\s+/): i scans s, cur is the token being read
RECURSIVE SplitFrom(_, _, _, _)
SplitFrom(s, i, cur, out) ==
  IF i > Len(s) THEN Append(out, cur)
  ELSE IF s[i] \in Whitespace
       THEN IF i < Len(s) /\ s[i + 1] \in Whitespace
            THEN SplitFrom(s, i + 1, cur, out)
            ELSE SplitFrom(s, i + 1, <<>>, Append(out, cur))
       ELSE SplitFrom(s, i + 1, Append(cur, s[i]), out)

SplitWhitespace(s) == SplitFrom(s, 1, <<>>, <<>>)

\* String.prototype.includes
Includes(hay, needle) ==
  \E i \in 0..(Len(hay) - Len(needle)) :
    SubSeq(hay, i + 1, i + Len(needle)) = needle

\* Array.prototype.join(',') as used by String(array)
RECURSIVE JoinComma(_)
JoinComma(list) ==
  IF list = <<>> THEN <<>>
  ELSE IF Len(list) = 1 THEN list[1]
  ELSE list[1] \o <<",">> \o JoinComma(Tail(list))

\* decimal rendering of a natural number in a template literal
Digits == <<"0", "1", "2", "3", "4", "5", "6", "7", "8", "9">>

RECURSIVE NumberToString(_)
NumberToString(n) ==
  IF n < 10 THEN <<Digits[n + 1]>>
  ELSE NumberToString(n \div 10) \o <<Digits[(n % 10) + 1]>>

(***************************************************************************)
(* new RegExp(source) and RegExp.prototype.test for the patterns used      *)
(* here: literal atoms, "." (any one atom), a leading "^", a trailing "$". *)
(* A "(" or "[" that is never closed, or a leading quantifier, is a        *)
(* SyntaxError.                                                            *)
(***************************************************************************)
RegExpCompiles(src) ==
  /\ \A i \in 1..Len(src) :
       /\ src[i] = "(" => \E j \in (i + 1)..Len(src) : src[j] = ")"
       /\ src[i] = "[" => \E j \in (i + 1)..Len(src) : src[j] = "]"
  /\ (src # <<>> => src[1] \notin {"*", "+", "?"})

RegExpBody(src) ==
  LET s1 == IF src # <<>> /\ src[1] = "^" THEN Tail(src) ELSE src
  IN  IF s1 # <<>> /\ s1[Len(s1)] = "$"
      THEN SubSeq(s1, 1, Len(s1) - 1) ELSE s1

RegExpMatchesAt(body, str, at) ==
  /\ at + Len(body) <= Len(str)
  /\ \A k \in 1..Len(body) : body[k] = "." \/ body[k] = str[at + k]

RegExpTest(src, str) ==
  LET body == RegExpBody(src)
      anchoredStart == src # <<>> /\ src[1] = "^"
      anchoredEnd == src # <<>> /\ src[Len(src)] = "$" /\ Len(src) > (IF anchoredStart THEN 1 ELSE 0)
  IN  \E at \in 0..Len(str) :
        /\ RegExpMatchesAt(body, str, at)
        /\ anchoredStart => at = 0
        /\ anchoredEnd => at + Len(body) = Len(str)

(***************************************************************************)
(* Context properties by the type of value they hold                      *)
(***************************************************************************)
AtomKeys == {"taskState", "currentActivity", "workingDirectory"}
TextKeys == {"lastCommand", "gitBranch", "gitStatus", "custom"}
BoolKeys == {"hasUncommittedChanges", "hasPendingPush", "build_failed"}
ListKeys == {"fileTypes", "recentFiles"}

ObjectString == <<"[object Object]">>

\* String(actual || '') for the value stored under key, .toLowerCase() not
\* yet applied
ActualString(ctx, key) ==
  IF ~Has(ctx, key) THEN <<>>
  ELSE IF key \in AtomKeys THEN (IF ctx[key] = "" THEN <<>> ELSE <<ctx[key]>>)
  ELSE IF key \in TextKeys THEN ctx[key]
  ELSE IF key \in BoolKeys THEN (IF ctx[key] THEN <<"true">> ELSE <<>>)
  ELSE IF key \in ListKeys THEN JoinComma(ctx[key])
  ELSE ObjectString

\* the property name a pattern value denotes in context[pattern.value]
PropertyName(text) == IF Len(text) = 1 THEN text[1] ELSE ""

(***************************************************************************)
(* CommandParser                                                           *)
(***************************************************************************)
\* rules.filter((r) => r.isActive)
ActiveRules(list) == SelectSeq(list, LAMBDA r : r.isActive)

\* Array.prototype.sort((a, b) => b.priority - a.priority): stable
RECURSIVE InsertByPriority(_, _)
InsertByPriority(sorted, r) ==
  IF sorted = <<>> THEN <<r>>
  ELSE IF Head(sorted).priority >= r.priority
       THEN <<Head(sorted)>> \o InsertByPriority(Tail(sorted), r)
       ELSE <<r>> \o sorted

RECURSIVE SortByPriority(_)
SortByPriority(list) ==
  IF list = <<>> THEN <<>>
  ELSE InsertByPriority(SortByPriority(SubSeq(list, 1, Len(list) - 1)),
                        list[Len(list)])

\* a rule list that keeps the inactive rules
ParserRulesUnfiltered(list) == SortByPriority(list)

\* the parser's rule list as the constructor and updateRules compute it
ParserRules(list) == SortByPriority(ActiveRules(list))

\* a map keyed by the trigger as written
TriggerKeyAsWritten(r) == r.trigger

TriggerKey(r) == ToLowerCase(r.trigger)

BuildCommandMap(rs) ==
  [t \in {TriggerKey(rs[i]) : i \in 1..Len(rs)} |->
     SelectSeq(rs, LAMBDA r : TriggerKey(r) = t)]

Parse(cmap, in) ==
  LET trimmed == Trim(in)
      tokens == SplitWhitespace(trimmed)
      trigger == ToLowerCase(tokens[1])
      args == Tail(tokens)
      base == [raw |-> in, trigger |-> trigger, tokens |-> tokens,
               isShorthand |-> trigger \in DOMAIN cmap]
  IN  IF Len(args) > 0 THEN Assign(base, "arguments", args) ELSE base

\* a comparison in which a source that does not compile holds
CompareValuesInvalidHolds(actualStr0, expected, operator) ==
  LET actualStr == ToLowerCase(actualStr0)
      expectedStr == ToLowerCase(expected)
  IN  CASE operator = "equals" -> actualStr = expectedStr
        [] operator = "contains" -> Includes(actualStr, expectedStr)
        [] operator = "matches" ->
             IF RegExpCompiles(expectedStr)
             THEN RegExpTest(expectedStr, actualStr) ELSE TRUE
        [] operator = "not_equals" -> actualStr # expectedStr
        [] OTHER -> FALSE

CompareValues(actualStr0, expected, operator) ==
  LET actualStr == ToLowerCase(actualStr0)
      expectedStr == ToLowerCase(expected)
  IN  CASE operator = "equals" -> actualStr = expectedStr
        [] operator = "contains" -> Includes(actualStr, expectedStr)
        [] operator = "matches" ->
             IF RegExpCompiles(expectedStr)
             THEN RegExpTest(expectedStr, actualStr) ELSE FALSE
        [] operator = "not_equals" -> actualStr # expectedStr
        [] OTHER -> FALSE

\* expected.toLowerCase() in compareValues is a TypeError when the pattern
\* has no value; an event pattern compares with 'true' and a file_type
\* pattern compares once per file type
PatternThrows(pattern, ctx) ==
  /\ ~Has(pattern, "value")
  /\ \/ pattern.type \in {"task_state", "activity", "custom"}
     \/ /\ pattern.type = "file_type"
        /\ Has(ctx, "fileTypes") /\ Len(ctx.fileTypes) > 0

\* the value matchesContextPattern returns; FALSE when it returns none
MatchesContextPattern(pattern, ctx) ==
  LET operator == Get(pattern, "operator", "equals")
  IN  IF PatternThrows(pattern, ctx) THEN FALSE
      ELSE
      CASE pattern.type = "task_state" ->
             CompareValues(ActualString(ctx, "taskState"), pattern.value, operator)
        [] pattern.type = "activity" ->
             CompareValues(ActualString(ctx, "currentActivity"), pattern.value, operator)
        [] pattern.type = "file_type" ->
             IF ~Has(ctx, "fileTypes") THEN FALSE
             ELSE \E i \in 1..Len(ctx.fileTypes) :
                    CompareValues(ctx.fileTypes[i], pattern.value, operator)
        [] pattern.type = "event" ->
             CompareValues(
               ActualString(ctx, PropertyName(Get(pattern, "value", <<"undefined">>))),
               <<"true">>, operator)
        [] pattern.type = "custom" ->
             CompareValues(ActualString(ctx, pattern.type), pattern.value, operator)
        [] OTHER -> FALSE

\* a filter that accepts a rule as soon as one pattern holds
RuleMatchesSomePattern(rule, ctx) ==
  IF ~Has(rule, "contextPatterns") \/ Len(rule.contextPatterns) = 0
  THEN TRUE
  ELSE \E i \in 1..Len(rule.contextPatterns) :
         MatchesContextPattern(rule.contextPatterns[i], ctx)

\* the filter predicate of matchRules
RuleMatchesContext(rule, ctx) ==
  IF ~Has(rule, "contextPatterns") \/ Len(rule.contextPatterns) = 0
  THEN TRUE
  ELSE \A i \in 1..Len(rule.contextPatterns) :
         MatchesContextPattern(rule.contextPatterns[i], ctx)

\* contextPatterns.every(...) reaches a pattern that throws: every pattern
\* before it held
RuleThrows(rule, ctx) ==
  \E i \in 1..Len(Get(rule, "contextPatterns", <<>>)) :
    /\ PatternThrows(rule.contextPatterns[i], ctx)
    /\ \A j \in 1..(i - 1) : MatchesContextPattern(rule.contextPatterns[j], ctx)

\* the filter of matchRules throws on one of the candidates
MatchRulesThrows(cmap, p, ctx) ==
  LET candidateRules == Get(cmap, p.trigger, <<>>)
  IN  \E k \in 1..Len(candidateRules) : RuleThrows(candidateRules[k], ctx)

\* a result in which rules of equal priority come latest-loaded first
MatchRulesTiesReversed(cmap, p, ctx) ==
  LET candidateRules == Get(cmap, p.trigger, <<>>)
      matched == SelectSeq(candidateRules, LAMBDA r : RuleMatchesContext(r, ctx))
  IN  SortByPriority([i \in 1..Len(matched) |-> matched[Len(matched) + 1 - i]])

MatchRules(cmap, p, ctx) ==
  LET candidateRules == Get(cmap, p.trigger, <<>>)
  IN  IF Len(candidateRules) = 0 THEN <<>>
      ELSE SortByPriority(
             SelectSeq(candidateRules, LAMBDA r : RuleMatchesContext(r, ctx)))

\* the last element of matchRules instead of the first
GetBestMatchLast(cmap, p, ctx) ==
  LET ms == MatchRules(cmap, p, ctx)
  IN  IF Len(ms) > 0 THEN [rule |-> ms[Len(ms)]] ELSE Null

GetBestMatch(cmap, p, ctx) ==
  LET ms == MatchRules(cmap, p, ctx)
  IN  IF Len(ms) > 0 THEN [rule |-> ms[1]] ELSE Null

(***************************************************************************)
(* Action Executor (CommandParser.executeAction and its helpers)           *)
(***************************************************************************)
ExplainUserAction(ctx) ==
  <<"Please complete the manual steps as described above and confirm when done.">>

ExplainUserActionRequired(ctx) ==
  <<"I cannot proceed automatically. User action is required. ">>
    \o ExplainUserAction(ctx)

\* an explanation that leaves the last command out
ExplainBlockingReasonOnly(ctx) ==
  <<"I am currently blocked. ">>
    \o <<"Please provide the required input or action to proceed.">>

ExplainBlockingReason(ctx) ==
  <<"I am currently blocked. ">>
    \o (IF Get(ctx, "lastCommand", <<>>) # <<>>
        THEN <<"Last command: \"">> \o ctx.lastCommand \o <<"\". ">>
        ELSE <<>>)
    \o <<"Please provide the required input or action to proceed.">>

Templates(ctx) ==
  [execute_next_logical_step |-> <<"Executing the next logical step...">>,
   explain_blocking_reason |-> ExplainBlockingReason(ctx),
   cannot_proceed_user_action_required |-> ExplainUserActionRequired(ctx),
   acknowledge_already_complete |-> <<"This task is already complete.">>,
   explain_what_user_must_do |-> ExplainUserAction(ctx)]

\* a handler's response name passed through without the template table
GenerateResponseVerbatim(template, ctx) == <<template>>

\* templates[template] || template
GenerateResponse(template, ctx) ==
  IF template \in DOMAIN Templates(ctx) THEN Templates(ctx)[template]
  ELSE <<template>>

\* a catch block that drops the message of what it caught
ThrownUnknown(message) == [success |-> FALSE, error |-> <<"Unknown error">>]

\* the failed result of the catch block of executeAction
Thrown(message) == [success |-> FALSE, error |-> message]

\* context.taskState || 'ready_to_proceed'
EffectiveTaskState(ctx) ==
  IF Get(ctx, "taskState", "") # "" THEN ctx.taskState ELSE "ready_to_proceed"

\* a lookup that falls back to the handler stored under "default"
HandlerForOrDefault(action, taskState) ==
  IF taskState \in DOMAIN action.handlers
  THEN [handler |-> action.handlers[taskState]]
  ELSE IF "default" \in DOMAIN action.handlers
  THEN [handler |-> action.handlers["default"]]
  ELSE Undefined

\* action.handlers[taskState]
HandlerFor(action, taskState) ==
  IF taskState \in DOMAIN action.handlers
  THEN [handler |-> action.handlers[taskState]] ELSE Undefined

ExecuteCommandAction(action, ctx) ==
  LET taskState == EffectiveTaskState(ctx)
  IN  IF ~Has(action, "handlers")
      THEN Thrown(<<"Cannot read properties of undefined">>)
      ELSE
      LET found == HandlerFor(action, taskState)
      IN  IF found = Undefined
          THEN [success |-> FALSE,
                error |-> <<"No handler for task state: ", taskState>>]
          ELSE
          LET handler == found.handler
              first == GenerateResponse(handler.response, ctx)
              response ==
                IF Has(handler, "details")
                THEN first \o <<"\n\n">> \o GenerateResponse(handler.details, ctx)
                ELSE first
              m0 == [taskState |-> taskState, handlerUsed |-> handler.response]
              m1 == IF Get(handler, "show_progress", FALSE)
                    THEN Assign(m0, "showProgress", TRUE) ELSE m0
              m2 == IF Get(handler, "show_summary", FALSE)
                    THEN Assign(m1, "showSummary", TRUE) ELSE m1
          IN  [success |-> TRUE, response |-> response, metadata |-> m2]

\* an object holding only the properties that are defined
OptionsMetadata(action) ==
  IF Has(action, "options") THEN [options |-> action.options]
  ELSE [x \in {} |-> TRUE]

ExecuteBehaviorAction(action, ctx) ==
  LET fromOptions == Get(Get(action, "options", <<>>), "verbosity", "")
      fromPrefs == Get(Get(ctx, "preferences", <<>>), "verbosity", "")
      verbosity == IF fromOptions # "" THEN fromOptions
                   ELSE IF fromPrefs # "" THEN fromPrefs ELSE "concise"
      base == [success |-> TRUE, response |-> <<"Executing behavior steps">>,
               metadata |-> Assign(OptionsMetadata(action), "verbosity", verbosity)]
  IN  IF Has(action, "steps") THEN Assign(base, "actions", action.steps) ELSE base

\* a macro result whose response does not count the steps
ExecuteMacroActionUncounted(action, ctx) ==
  IF ~Has(action, "steps")
  THEN Thrown(<<"Cannot read properties of undefined">>)
  ELSE [success |-> TRUE,
        response |-> <<"Executing macro">>,
        actions |-> action.steps,
        metadata |-> OptionsMetadata(action)]

ExecuteMacroAction(action, ctx) ==
  IF ~Has(action, "steps")
  THEN Thrown(<<"Cannot read properties of undefined">>)
  ELSE [success |-> TRUE,
        response |-> <<"Executing macro with ">>
                       \o NumberToString(Len(action.steps)) \o <<" steps">>,
        actions |-> action.steps,
        metadata |-> OptionsMetadata(action)]

ExecuteAction(rule, ctx) ==
  IF ~Has(rule, "action") THEN Thrown(<<"Cannot read properties of undefined">>)
  ELSE
  LET type == Get(rule.action, "type", "undefined")
  IN  CASE type = "contextual_execution" -> ExecuteCommandAction(rule.action, ctx)
        [] type = "behavior" -> ExecuteBehaviorAction(rule.action, ctx)
        [] type = "macro" -> ExecuteMacroAction(rule.action, ctx)
        [] type = "preference" ->
             [success |-> TRUE, response |-> <<"Preferences applied">>]
        [] type = "workflow" ->
             IF Has(rule.action, "steps")
             THEN [success |-> TRUE, response |-> <<"Workflow triggered">>,
                   actions |-> rule.action.steps]
             ELSE [success |-> TRUE, response |-> <<"Workflow triggered">>]
        [] OTHER ->
             [success |-> FALSE, error |-> <<"Unknown action type: ", type>>]

\* an executor that applies a preference action's settings to the context
ContextAfterExecuteApplied(rule, ctx) ==
  IF Has(rule, "action") /\ Get(rule.action, "type", "") = "preference"
  THEN Assign(ctx, "preferences", Get(rule.action, "settings", Undefined))
  ELSE ctx

\* the context object the caller passed, once executeAction has returned:
\* no branch of executeAction or of its helpers assigns to it
ContextAfterExecute(rule, ctx) == ctx

(***************************************************************************)
(* Configuration (config/index.ts) and fixed parameters                    *)
(***************************************************************************)
ConfigCacheTtl == 300
DefaultCacheTtl == 30
RulesCacheTtl == 3600
HistoryCap == 50
RecentCap == 10

ConfigCacheMaxSize == 100

Config ==
  [userId |-> "user",
   cache |-> [enabled |-> TRUE, ttl |-> ConfigCacheTtl, maxSize |-> ConfigCacheMaxSize]]

(***************************************************************************)
(* RulesClient: the PromptingRules table and the conversion of rules to    *)
(* and from its records.  A JSON text is [json |-> v] for the value v it   *)
(* encodes; a text that does not parse is [malformed |-> TRUE].            *)
(***************************************************************************)
JsonStringify(v) == [json |-> v]

\* RulesClient.parseJson
ParseJson(fields, key, defaultValue) ==
  IF ~Has(fields, key) THEN defaultValue
  ELSE IF Has(fields[key], "json") THEN fields[key].json ELSE defaultValue

\* the properties of obj whose names are in keys
Pick(obj, keys) == [k \in (DOMAIN obj) \cap keys |-> obj[k]]

RuleToFields(rule) ==
  LET plain == Pick(rule, {"userId", "ruleType", "category", "trigger",
                           "priority", "isActive", "description"})
      f1 == Assign(plain, "action", JsonStringify(rule.action))
  IN  IF Has(rule, "contextPatterns")
      THEN Assign(f1, "contextPatterns", JsonStringify(rule.contextPatterns))
      ELSE f1

RecordToRule(record) ==
  Pick(record, {"id", "userId", "ruleType", "category", "trigger",
                "priority", "isActive", "description"})
    @@ [contextPatterns |-> ParseJson(record, "contextPatterns", <<>>),
        action |-> ParseJson(record, "action", [x \in {} |-> TRUE]),
        examples |-> ParseJson(record, "examples", <<>>)]

\* base(table).create(fields): the table numbers its records
CreateRecord(table, fields) == Append(table, Assign(fields, "id", Len(table) + 1))

\* select({filterByFormula: userId and isActive, sort: priority desc}).all()
SelectActiveRules(table, userId) ==
  LET recs == SelectSeq(table, LAMBDA r : r.userId = userId /\ Get(r, "isActive", FALSE))
  IN  SortByPriority([i \in 1..Len(recs) |-> RecordToRule(recs[i])])

\* a default set without the Done rule and the preference rule
DefaultRuleInputsGoOnly(userId) ==
  << [userId |-> userId, ruleType |-> "COMMAND", trigger |-> <<"G", "o">>,
      contextPatterns |-> <<[type |-> "task_state", value |-> <<"ready_to_proceed">>]>>,
      action |-> [type |-> "contextual_execution",
                  handlers |-> [ready_to_proceed |->
                                  [response |-> "execute_next_logical_step",
                                   show_progress |-> TRUE]]],
      priority |-> 100, isActive |-> TRUE,
      description |-> "Execute next step when ready"],
     [userId |-> userId, ruleType |-> "COMMAND", trigger |-> <<"G", "o">>,
      contextPatterns |-> <<[type |-> "task_state", value |-> <<"blocked">>]>>,
      action |-> [type |-> "contextual_execution",
                  handlers |-> [blocked |->
                                  [response |-> "explain_blocking_reason",
                                   details |-> "explain_what_user_must_do"]]],
      priority |-> 95, isActive |-> TRUE,
      description |-> "Explain blocking reason when blocked"] >>

\* the literal of createDefaultRules
DefaultRuleInputs(userId) ==
  << [userId |-> userId, ruleType |-> "COMMAND", trigger |-> <<"G", "o">>,
      contextPatterns |-> <<[type |-> "task_state", value |-> <<"ready_to_proceed">>]>>,
      action |-> [type |-> "contextual_execution",
                  handlers |-> [ready_to_proceed |->
                                  [response |-> "execute_next_logical_step",
                                   show_progress |-> TRUE]]],
      priority |-> 100, isActive |-> TRUE,
      description |-> "Execute next step when ready"],
     [userId |-> userId, ruleType |-> "COMMAND", trigger |-> <<"G", "o">>,
      contextPatterns |-> <<[type |-> "task_state", value |-> <<"blocked">>]>>,
      action |-> [type |-> "contextual_execution",
                  handlers |-> [blocked |->
                                  [response |-> "explain_blocking_reason",
                                   details |-> "explain_what_user_must_do"]]],
      priority |-> 95, isActive |-> TRUE,
      description |-> "Explain blocking reason when blocked"],
     [userId |-> userId, ruleType |-> "COMMAND", trigger |-> <<"D", "o", "n", "e">>,
      action |-> [type |-> "contextual_execution",
                  handlers |-> [default |->
                                  [response |-> "acknowledge_already_complete",
                                   show_summary |-> TRUE]]],
      priority |-> 90, isActive |-> TRUE,
      description |-> "Acknowledge completion"],
     [userId |-> userId, ruleType |-> "PREFERENCE", category |-> "communication",
      trigger |-> <<"a", "l", "w", "a", "y", "s">>,
      action |-> [type |-> "preference",
                  settings |-> [verbosity |-> "concise", use_emojis |-> FALSE,
                                error_detail_level |-> "full",
                                proactive_suggestions |-> TRUE,
                                confirm_destructive_actions |-> TRUE]],
      priority |-> 50, isActive |-> TRUE,
      description |-> "Default communication preferences"] >>

\* createDefaultRules: createRule for each default, in order; the table after
\* the first n creations
RECURSIVE CreateDefaultsInto(_, _, _)
CreateDefaultsInto(table, userId, n) ==
  IF n = 0 THEN table
  ELSE CreateRecord(CreateDefaultsInto(table, userId, n - 1),
                    RuleToFields(DefaultRuleInputs(userId)[n]))

\* the rules createDefaultRules returns when it starts from table
CreatedDefaultRules(table, userId) ==
  LET after == CreateDefaultsInto(table, userId, Len(DefaultRuleInputs(userId)))
  IN  [i \in 1..Len(DefaultRuleInputs(userId)) |-> RecordToRule(after[Len(table) + i])]

\* Cache.get for the rules entry
CacheGet(entry, t) ==
  IF ~Config.cache.enabled THEN Null
  ELSE IF entry = Undefined THEN Null
  ELSE IF t > entry.expiresAt THEN Null
  ELSE [data |-> entry.data]

\* the entry Cache.get leaves behind (an expired entry is deleted)
CacheAfterGet(entry, t) ==
  IF Config.cache.enabled /\ entry # Undefined /\ t > entry.expiresAt
  THEN Undefined ELSE entry

\* Cache.set(key, value, ttl)
CacheSet(entry, value, ttl, t) ==
  IF ~Config.cache.enabled THEN entry
  ELSE [data |-> value, expiresAt |-> t + ttl]

\* RulesClient.loadRules: the rules returned and the cache entry afterwards
LoadRules(table, entry, t) ==
  LET cached == CacheGet(entry, t)
      fresh == SelectActiveRules(table, Config.userId)
  IN  IF cached # Null
      THEN [rules |-> cached.data, cache |-> entry]
      ELSE [rules |-> fresh,
            cache |-> CacheSet(CacheAfterGet(entry, t), fresh, RulesCacheTtl, t)]

(***************************************************************************)
(* ContextEngine                                                           *)
(***************************************************************************)
\* String.prototype.split('\n')
RECURSIVE SplitLinesFrom(_, _, _, _)
SplitLinesFrom(s, i, cur, out) ==
  IF i > Len(s) THEN Append(out, cur)
  ELSE IF s[i] = "\n" THEN SplitLinesFrom(s, i + 1, <<>>, Append(out, cur))
  ELSE SplitLinesFrom(s, i + 1, Append(cur, s[i]), out)

SplitLines(s) == SplitLinesFrom(s, 1, <<>>, <<>>)

\* path.extname: from the last "." of the last path segment, unless the
\* segment starts with it
Extname(file) ==
  LET dots == {i \in 1..Len(file) : file[i] = "."}
      slashes == {i \in 1..Len(file) : file[i] = "/"}
      baseStart == IF slashes = {} THEN 1
                   ELSE (CHOOSE i \in slashes : \A j \in slashes : j <= i) + 1
      inBase == {i \in dots : i > baseStart}
  IN  IF inBase = {} THEN <<>>
      ELSE SubSeq(file, CHOOSE i \in inBase : \A j \in inBase : j <= i, Len(file))

\* Array.from(new Set(list)): first occurrences, in order
RECURSIVE Unique(_)
Unique(list) ==
  IF list = <<>> THEN <<>>
  ELSE LET init == Unique(SubSeq(list, 1, Len(list) - 1))
           last == list[Len(list)]
       IN  IF \E i \in 1..Len(init) : init[i] = last THEN init
           ELSE Append(init, last)

\* new ContextEngine(initialContext)
NewContext(initialContext) == initialContext @@ [taskState |-> "ready_to_proceed"]

\* new ContextEngine(_, options): options?.cacheEnabled ?? true,
\* options?.cacheTTL ?? 30
EngineOptions(options) ==
  [cacheEnabled |-> Get(options, "cacheEnabled", TRUE),
   cacheTTL |-> Get(options, "cacheTTL", DefaultCacheTtl)]

\* a failed probe that only clears the flags
CollectGitContextStale(ctx, git) ==
  IF git.ok /\ Get(git, "statusOk", TRUE)
  THEN Assign(Assign(Assign(Assign(ctx,
         "gitBranch", Trim(git.branch)),
         "gitStatus", git.status),
         "hasUncommittedChanges", Len(Trim(git.status)) > 0),
         "hasPendingPush", IF git.unpushedOk THEN Len(Trim(git.unpushed)) > 0 ELSE FALSE)
  ELSE Assign(Assign(ctx,
         "hasUncommittedChanges", FALSE),
         "hasPendingPush", FALSE)

\* git.ok: rev-parse succeeded; git.statusOk: git status succeeded;
\* git.unpushedOk: git log origin/<branch>..HEAD succeeded
CollectGitContext(ctx, git) ==
  IF git.ok /\ Get(git, "statusOk", TRUE)
  THEN Assign(Assign(Assign(Assign(ctx,
         "gitBranch", Trim(git.branch)),
         "gitStatus", git.status),
         "hasUncommittedChanges", Len(Trim(git.status)) > 0),
         "hasPendingPush", IF git.unpushedOk THEN Len(Trim(git.unpushed)) > 0 ELSE FALSE)
  ELSE Assign(Assign(Remove(Remove(ctx, "gitBranch"), "gitStatus"),
         "hasUncommittedChanges", FALSE),
         "hasPendingPush", FALSE)

CollectFileContext(ctx, file) ==
  IF file.ok
  THEN LET recentFiles == SelectSeq(SplitLines(Trim(file.stdout)), LAMBDA f : f # <<>>)
           exts == [i \in 1..Len(recentFiles) |-> Extname(recentFiles[i])]
       IN  Assign(Assign(Assign(ctx,
             "workingDirectory", file.cwd),
             "recentFiles", recentFiles),
             "fileTypes", Unique(SelectSeq(exts, LAMBDA e : e # <<>>)))
  ELSE Assign(Assign(Assign(ctx,
         "workingDirectory", file.cwd),
         "recentFiles", <<>>),
         "fileTypes", <<>>)

\* sessionDuration is in minutes: the pair <<seconds, 60>> is seconds / 60
CollectSessionContext(ctx, t) ==
  LET c1 == IF ~Has(ctx, "sessionStartTime") THEN Assign(ctx, "sessionStartTime", t) ELSE ctx
  IN  Assign(c1, "sessionDuration", <<t - c1.sessionStartTime, 60>>)

\* a cache check that still takes a collection of age cacheTTL for fresh
CacheFreshInclusive(options, collected, t) ==
  /\ options.cacheEnabled
  /\ collected # Undefined
  /\ t - collected.at <= options.cacheTTL

\* the cache check of collectContext
CacheFresh(options, collected, t) ==
  /\ options.cacheEnabled
  /\ collected # Undefined
  /\ t - collected.at < options.cacheTTL

\* collectContext: engine is [context, lastCollected, options]
CollectContext(engine, t, git, file) ==
  IF CacheFresh(engine.options, engine.lastCollected, t) THEN engine
  ELSE [context |-> CollectSessionContext(
                      CollectFileContext(CollectGitContext(engine.context, git), file), t),
        lastCollected |-> [at |-> t],
        options |-> engine.options]

\* a merge in which the fields the context already has win
UpdateContextKeepFirst(ctx, updates) == ctx @@ updates

\* updateContext: { ...this.context, ...updates }
UpdateContext(ctx, updates) == updates @@ ctx

SetTaskState(ctx, state) == Assign(ctx, "taskState", state)

SetActivity(ctx, activity) == Assign(ctx, "currentActivity", activity)

ApplyPreferences(ctx, preferences) == Assign(ctx, "preferences", preferences)

\* a slice that keeps the oldest n elements
FirstN(list, n) == IF Len(list) <= n THEN list ELSE SubSeq(list, 1, n)

\* Array.prototype.slice(-n)
LastN(list, n) == IF Len(list) <= n THEN list ELSE SubSeq(list, Len(list) - n + 1, Len(list))

RecordCommand(ctx, command) ==
  LET pushed == Append(Get(ctx, "commandHistory", <<>>), command)
      history == IF Len(pushed) > HistoryCap THEN LastN(pushed, HistoryCap) ELSE pushed
  IN  Assign(Assign(Assign(ctx,
        "commandHistory", history),
        "lastCommand", command),
        "recentCommands", LastN(history, RecentCap))

\* a rule that takes a list without open todos for a completed one
UpdateTodoContextNoneOpen(ctx, todos) ==
  LET activeTodos == SelectSeq(todos, LAMBDA t : t.status = "in_progress")
      completedTodos == SelectSeq(todos, LAMBDA t : t.status = "completed")
      taskState == IF Len(activeTodos) > 0 THEN "in_progress"
                   ELSE IF Len(completedTodos) = Len(todos)
                        THEN "completed"
                        ELSE "ready_to_proceed"
  IN  Assign(Assign(Assign(Assign(ctx,
        "todoList", todos),
        "activeTodos", activeTodos),
        "completedTodos", completedTodos),
        "taskState", taskState)

UpdateTodoContext(ctx, todos) ==
  LET activeTodos == SelectSeq(todos, LAMBDA t : t.status = "in_progress")
      completedTodos == SelectSeq(todos, LAMBDA t : t.status = "completed")
      taskState == IF Len(activeTodos) > 0 THEN "in_progress"
                   ELSE IF Len(completedTodos) = Len(todos) /\ Len(todos) > 0
                        THEN "completed"
                        ELSE "ready_to_proceed"
  IN  Assign(Assign(Assign(Assign(ctx,
        "todoList", todos),
        "activeTodos", activeTodos),
        "completedTodos", completedTodos),
        "taskState", taskState)

InferTaskState(ctx) ==
  IF Has(ctx, "lastCommand") /\ Includes(ToLowerCase(ctx.lastCommand), <<"manual">>)
  THEN "waiting_for_user"
  ELSE IF Has(ctx, "activeTodos") /\ Len(ctx.activeTodos) > 0
  THEN "in_progress"
  ELSE IF /\ Has(ctx, "todoList") /\ Has(ctx, "completedTodos")
          /\ Len(ctx.todoList) > 0
          /\ Len(ctx.completedTodos) = Len(ctx.todoList)
  THEN "completed"
  ELSE "ready_to_proceed"

CodeExtensions == {<<".", "ts">>, <<".", "js">>, <<".", "py">>, <<".", "go">>}
DocExtensions == {<<".", "md">>, <<".", "txt">>}
TestExtensions == {<<".", "test", ".", "ts">>, <<".", "spec", ".", "ts">>}

SomeFileType(ctx, exts) ==
  Has(ctx, "fileTypes") /\ \E i \in 1..Len(ctx.fileTypes) : ctx.fileTypes[i] \in exts

\* inferActivity, Undefined when it returns undefined
InferActivity(ctx) ==
  IF SomeFileType(ctx, CodeExtensions) THEN [activity |-> "coding"]
  ELSE IF SomeFileType(ctx, DocExtensions) THEN [activity |-> "documenting"]
  ELSE IF SomeFileType(ctx, TestExtensions) THEN [activity |-> "testing"]
  ELSE Undefined

AutoInfer(ctx) ==
  LET c1 == Assign(ctx, "taskState", InferTaskState(ctx))
      act == InferActivity(ctx)
  IN  IF act = Undefined THEN Remove(c1, "currentActivity")
      ELSE Assign(c1, "currentActivity", act.activity)

\* reset: the context it installs
Reset(t) == [taskState |-> "ready_to_proceed", sessionStartTime |-> t]

\* the methods of the engine other than collectContext
EngineMethods ==
  {"updateContext", "setTaskState", "setActivity", "recordCommand",
   "updateTodoContext", "applyPreferences", "getContext", "clearCache",
   "reset", "autoInfer"}

\* an engine whose clearCache leaves the collection timestamp alone
LastCollectedAfterKeptByClear(method, collected) ==
  IF method \in {"updateContext", "reset"} THEN Undefined ELSE collected

\* this.lastCollected after a method other than collectContext: updateContext,
\* clearCache and reset assign undefined, the others do not assign it
LastCollectedAfter(method, collected) ==
  IF method \in {"updateContext", "clearCache", "reset"} THEN Undefined
  ELSE collected

\* sessionContext.context is the very object the engine holds
SharedHandle == [shared |-> TRUE]

\* this.context = {...}: the engine takes a new object, and a handle that
\* referred to the old one keeps it with the fields it had
HandleAfterReplace(h, ctx) ==
  IF h = Null THEN Null
  ELSE IF h.shared THEN [shared |-> FALSE, context |-> ctx]
  ELSE h

\* the fields sessionContext.context shows, next to the engine's object
HandleContext(h, ctx) == IF h.shared THEN ctx ELSE h.context

(***************************************************************************)
(* SessionInitializer and MemoryClient                                     *)
(***************************************************************************)
\* rules.find((r) => r.ruleType === 'PREFERENCE' && r.isActive)
PreferenceRules(list) ==
  SelectSeq(list, LAMBDA r : r.ruleType = "PREFERENCE" /\ r.isActive)

NoSettings == [x \in {} |-> TRUE]

\* the options initialize() gives the ContextEngine it creates
SessionEngineOptions ==
  EngineOptions([cacheEnabled |-> Config.cache.enabled, cacheTTL |-> Config.cache.ttl])

ExtractPreferences(list, fallback) ==
  IF Len(PreferenceRules(list)) > 0
  THEN Get(PreferenceRules(list)[1].action, "settings", NoSettings)
  ELSE fallback

\* the registry initialize and refresh build: the COMMAND rules under their
\* trigger as written
BuildCommandRegistry(list) ==
  LET commands == SelectSeq(list, LAMBDA r : r.ruleType = "COMMAND")
  IN  [t \in {commands[i].trigger : i \in 1..Len(commands)} |->
         SelectSeq(commands, LAMBDA r : r.trigger = t)]

\* SessionInitializer.initialize: everything it builds and leaves behind
Initialize(table, entry, t, git, file) ==
  LET loaded == LoadRules(table, entry, t)
      bootstrap == Len(loaded.rules) = 0
      sessionRules == IF bootstrap
                      THEN loaded.rules \o CreatedDefaultRules(table, Config.userId)
                      ELSE loaded.rules
      preferences == ExtractPreferences(sessionRules, NoSettings)
      fresh == [context |-> NewContext([preferences |-> preferences]),
                lastCollected |-> Undefined,
                options |-> SessionEngineOptions]
      collected == CollectContext(fresh, t, git, file)
  IN  [store |-> IF bootstrap
                 THEN CreateDefaultsInto(table, Config.userId,
                                         Len(DefaultRuleInputs(Config.userId)))
                 ELSE table,
       rulesCache |-> IF bootstrap THEN Undefined ELSE loaded.cache,
       session |-> [userId |-> Config.userId, rules |-> sessionRules,
                    commandRegistry |-> BuildCommandRegistry(sessionRules),
                    preferences |-> preferences],
       context |-> AutoInfer(collected.context),
       lastCollected |-> collected.lastCollected]

\* a refresh that falls back to no preferences at all
RefreshWithoutFallback(sessionContext, table, entry, t) ==
  LET loaded == LoadRules(table, entry, t)
  IN  [session |-> [sessionContext EXCEPT
                      !.rules = loaded.rules,
                      !.commandRegistry = BuildCommandRegistry(loaded.rules),
                      !.preferences = ExtractPreferences(loaded.rules, NoSettings)],
       rulesCache |-> loaded.cache]

\* SessionInitializer.refresh: the session handle it returns and the rules
\* cache entry loadRules leaves
Refresh(sessionContext, table, entry, t) ==
  LET loaded == LoadRules(table, entry, t)
  IN  [session |-> [sessionContext EXCEPT
                      !.rules = loaded.rules,
                      !.commandRegistry = BuildCommandRegistry(loaded.rules),
                      !.preferences = ExtractPreferences(loaded.rules,
                                                         sessionContext.preferences)],
       rulesCache |-> loaded.cache]

\* an error result that does not quote the input
UnknownCommandUnquoted(in) ==
  [success |-> FALSE,
   error |-> <<"Unknown command. No matching rules found.">>]

\* the error result of processCommand
UnknownCommand(in) ==
  [success |-> FALSE,
   error |-> <<"Unknown command: \"">> \o in \o <<"\". No matching rules found.">>]

\* a call whose promise is rejected instead of resolving with a result
Rejected(message) == [rejected |-> TRUE, message |-> message]

\* a body that records the command before it infers the task state
ProcessRecordingFirst(cmap, engine, in, t, git, file) ==
  LET p == Parse(cmap, in)
      collected == CollectContext(engine, t, git, file)
      ctx == AutoInfer(RecordCommand(collected.context, in))
      throws == MatchRulesThrows(cmap, p, ctx)
      rule == IF throws THEN Null ELSE GetBestMatch(cmap, p, ctx)
  IN  [parsed |-> p, context |-> ctx, lastCollected |-> collected.lastCollected,
       matches |-> IF throws THEN <<>> ELSE MatchRules(cmap, p, ctx),
       best |-> rule,
       result |-> IF throws
                  THEN Rejected(<<"Cannot read properties of undefined">>)
                  ELSE IF rule = Null THEN UnknownCommand(in)
                  ELSE ExecuteAction(rule.rule, ctx)]

\* the body of processCommand once the session exists; nothing in it catches
\* what getBestMatch throws
Process(cmap, engine, in, t, git, file) ==
  LET p == Parse(cmap, in)
      collected == CollectContext(engine, t, git, file)
      ctx == RecordCommand(AutoInfer(collected.context), in)
      throws == MatchRulesThrows(cmap, p, ctx)
      rule == IF throws THEN Null ELSE GetBestMatch(cmap, p, ctx)
  IN  [parsed |-> p, context |-> ctx, lastCollected |-> collected.lastCollected,
       matches |-> IF throws THEN <<>> ELSE MatchRules(cmap, p, ctx),
       best |-> rule,
       result |-> IF throws
                  THEN Rejected(<<"Cannot read properties of undefined">>)
                  ELSE IF rule = Null THEN UnknownCommand(in)
                  ELSE ExecuteAction(rule.rule, ctx)]

(***************************************************************************)
(* Inputs of the session model                                             *)
(***************************************************************************)
TaskStates == {"ready_to_proceed", "blocked", "waiting_for_user",
               "in_progress", "completed", "paused"}

Go == <<"G", "o">>
Done == <<"D", "o", "n", "e">>
Ship == <<"s", "h", "i", "p">>
Gibberish == <<"z", "z", "gibberish">>

SessionInputs == {Go, Done, Ship, <<" ", "g", "o", " ", "Manual">>}

ShipSteps == <<"test", "build", "commit", "push">>

\* a rule store holding one custom macro rule and one deactivated rule
CustomTable ==
  CreateRecord(
    CreateRecord(<<>>,
      RuleToFields([userId |-> Config.userId, ruleType |-> "WORKFLOW",
                    trigger |-> Ship,
                    action |-> [type |-> "macro", steps |-> ShipSteps],
                    priority |-> 80, isActive |-> TRUE])),
    RuleToFields([userId |-> Config.userId, ruleType |-> "COMMAND",
                  trigger |-> Go,
                  action |-> [type |-> "workflow", steps |-> <<"deploy">>],
                  priority |-> 200, isActive |-> FALSE]))

Tables == {<<>>, CustomTable}

\* a rule store whose "Go" rule has a context pattern without a value
MalformedTable ==
  CreateRecord(
    CreateRecord(<<>>,
      RuleToFields([userId |-> Config.userId, ruleType |-> "WORKFLOW",
                    trigger |-> Ship,
                    action |-> [type |-> "macro", steps |-> ShipSteps],
                    priority |-> 80, isActive |-> TRUE])),
    RuleToFields([userId |-> Config.userId, ruleType |-> "COMMAND",
                  trigger |-> Go,
                  contextPatterns |-> << [type |-> "task_state"] >>,
                  action |-> [type |-> "contextual_execution",
                              handlers |-> [ready_to_proceed |->
                                              [response |-> "execute_next_logical_step"]]],
                  priority |-> 100, isActive |-> TRUE]))

FaultyTables == {MalformedTable}

GitOutcomes ==
  { [ok |-> FALSE],
    [ok |-> TRUE, branch |-> <<"main", "\n">>, status |-> <<" ", "M", " ", "a.ts", "\n">>,
     unpushedOk |-> TRUE, unpushed |-> <<"abc123", " ", "wip", "\n">>] }

FileOutcomes ==
  { [ok |-> FALSE, cwd |-> "/work"],
    [ok |-> TRUE, cwd |-> "/work",
     stdout |-> <<".", "/", "index", ".", "ts", "\n", ".", "/", "README", "\n">>] }

Todo(id, status) == [id |-> id, status |-> status]

TodoLists ==
  { <<Todo(1, "in_progress")>>,
    <<Todo(1, "completed"), Todo(2, "completed")>>,
    <<Todo(1, "completed"), Todo(2, "pending")>> }

TickSteps == {ConfigCacheTtl}

(***************************************************************************)
(* The session: a MemoryClient driven through its public methods           *)
(***************************************************************************)
\* an operation that returns nothing leaves no outputs
NoOutput ==
  /\ input = <<>> /\ parsed = Null /\ matches = <<>>
  /\ best = Null /\ executed = Null /\ result = Null

Returned ==
  /\ input' = <<>> /\ parsed' = Null /\ matches' = <<>>
  /\ best' = Null /\ executed' = Null /\ result' = Null

Init ==
  /\ store \in Tables
  /\ rulesCache = Undefined
  /\ session = Undefined
  /\ suppliedRules = <<>>
  /\ rules = <<>>
  /\ commandMap = BuildCommandMap(<<>>)
  /\ context = NewContext(NoSettings)
  /\ lastCollected = Undefined
  /\ now = 0
  /\ engineOptions = SessionEngineOptions
  /\ probed = Null /\ argument = Null /\ issued = <<>>
  /\ op = "init"
  /\ cache = <<>> /\ cacheConfig = Config.cache
  /\ handle = Null
  /\ retrying = Null /\ projectContent = <<>> /\ calls = <<>>
  /\ NoOutput

\* the state initialize() leaves, as primed variables
Initialized(init) ==
  /\ store' = init.store
  /\ rulesCache' = init.rulesCache
  /\ session' = init.session
  /\ suppliedRules' = init.session.rules
  /\ rules' = ParserRules(init.session.rules)
  /\ commandMap' = BuildCommandMap(ParserRules(init.session.rules))

InitializeSession(git, file) ==
  /\ session = Undefined
  /\ LET init == Initialize(store, rulesCache, now, git, file)
     IN  /\ Initialized(init)
         /\ context' = init.context
         /\ lastCollected' = init.lastCollected
  /\ probed' = [git |-> git, file |-> file]
  /\ argument' = Null
  /\ op' = "initializeSession"
  /\ Returned
  /\ UNCHANGED <<now, engineOptions, issued>>
  /\ UNCHANGED <<retrying, projectContent, calls, cache, cacheConfig>>
  /\ handle' = SharedHandle

CommandCount == Len(Get(context, "commandHistory", <<>>))

ProcessCommand(in, git, file) ==
  /\ CommandCount < MaxCommands
  /\ LET init == Initialize(store, rulesCache, now, git, file)
         cmap == IF session = Undefined
                 THEN BuildCommandMap(ParserRules(init.session.rules))
                 ELSE commandMap
         engine == IF session = Undefined
                   THEN [context |-> init.context, lastCollected |-> init.lastCollected,
                         options |-> engineOptions]
                   ELSE [context |-> context, lastCollected |-> lastCollected,
                         options |-> engineOptions]
         out == Process(cmap, engine, in, now, git, file)
     IN  /\ IF session = Undefined THEN Initialized(init)
            ELSE UNCHANGED <<store, rulesCache, session, suppliedRules, rules, commandMap>>
         /\ context' = out.context
         /\ lastCollected' = out.lastCollected
         /\ input' = in
         /\ parsed' = out.parsed
         /\ matches' = out.matches
         /\ best' = out.best
         /\ executed' = out.best
         /\ result' = out.result
         /\ probed' = IF session = Undefined
                          \/ ~CacheFresh(engineOptions, lastCollected, now)
                       THEN [git |-> git, file |-> file] ELSE Null
  /\ argument' = [value |-> in]
  /\ issued' = Append(issued, in)
  /\ op' = "processCommand"
  /\ UNCHANGED <<now, engineOptions>>
  /\ UNCHANGED <<retrying, projectContent, calls, cache, cacheConfig>>
  /\ handle' = IF session = Undefined THEN SharedHandle ELSE handle

SetTaskStateCall(state) ==
  /\ session # Undefined
  /\ context' = SetTaskState(context, state)
  /\ probed' = Null
  /\ argument' = [value |-> state]
  /\ op' = "setTaskState"
  /\ Returned
  /\ UNCHANGED <<suppliedRules, rules, commandMap, lastCollected, now, store,
                 rulesCache, session, engineOptions, issued>>
  /\ UNCHANGED <<retrying, projectContent, calls, cache, cacheConfig, handle>>

UpdateTodoContextCall(todos) ==
  /\ session # Undefined
  /\ context' = UpdateTodoContext(context, todos)
  /\ probed' = Null
  /\ argument' = [value |-> todos]
  /\ op' = "updateTodoContext"
  /\ Returned
  /\ UNCHANGED <<suppliedRules, rules, commandMap, lastCollected, now, store,
                 rulesCache, session, engineOptions, issued>>
  /\ UNCHANGED <<retrying, projectContent, calls, cache, cacheConfig, handle>>

Tick(d) ==
  /\ session # Undefined
  /\ now + d <= MaxTime
  /\ now' = now + d
  /\ probed' = Null
  /\ argument' = Null
  /\ op' = "tick"
  /\ Returned
  /\ UNCHANGED <<suppliedRules, rules, commandMap, context, lastCollected, store,
                 rulesCache, session, engineOptions, issued>>
  /\ UNCHANGED <<retrying, projectContent, calls, cache, cacheConfig, handle>>

Next ==
  \/ \E git \in GitOutcomes, file \in FileOutcomes : InitializeSession(git, file)
  \/ \E in \in SessionInputs, git \in GitOutcomes, file \in FileOutcomes :
       ProcessCommand(in, git, file)
  \/ \E state \in TaskStates : SetTaskStateCall(state)
  \/ \E todos \in TodoLists : UpdateTodoContextCall(todos)
  \/ \E d \in TickSteps : Tick(d)

Spec == Init /\ [][Next]_vars

\* the same client over a rule store that holds a malformed rule
InitFaults ==
  /\ store \in FaultyTables
  /\ rulesCache = Undefined
  /\ session = Undefined
  /\ suppliedRules = <<>>
  /\ rules = <<>>
  /\ commandMap = BuildCommandMap(<<>>)
  /\ context = NewContext(NoSettings)
  /\ lastCollected = Undefined
  /\ now = 0
  /\ engineOptions = SessionEngineOptions
  /\ probed = Null /\ argument = Null /\ issued = <<>>
  /\ op = "init"
  /\ cache = <<>> /\ cacheConfig = Config.cache
  /\ handle = Null
  /\ retrying = Null /\ projectContent = <<>> /\ calls = <<>>
  /\ NoOutput

SpecFaults == InitFaults /\ [][Next]_vars

(***************************************************************************)
(* Refreshing: the client next to a rule store that is also edited from    *)
(* outside (the Airtable UI, another client), over more than the hour the  *)
(* rules stay cached                                                       *)
(***************************************************************************)
MaxStored == 3
MaxRefreshTime == 3601

\* rules added to the store from outside
ExternalRules ==
  { [userId |-> Config.userId, ruleType |-> "COMMAND", trigger |-> Ship,
     action |-> [type |-> "macro", steps |-> ShipSteps],
     priority |-> 70, isActive |-> TRUE],
    [userId |-> Config.userId, ruleType |-> "PREFERENCE", trigger |-> <<"always">>,
     action |-> [type |-> "preference", settings |-> [verbosity |-> "detailed"]],
     priority |-> 60, isActive |-> TRUE] }

\* to the last second of the cached rule list and past it
RefreshTickSteps == {RulesCacheTtl, RulesCacheTtl + 1}

\* MemoryClient.refreshRules
RefreshRulesCall ==
  /\ IF session = Undefined
     THEN UNCHANGED <<session, rulesCache, suppliedRules, rules, commandMap>>
     ELSE LET refreshed == Refresh(session, store, rulesCache, now)
          IN  /\ session' = refreshed.session
              /\ rulesCache' = refreshed.rulesCache
              /\ suppliedRules' = refreshed.session.rules
              /\ rules' = ParserRules(refreshed.session.rules)
              /\ commandMap' = BuildCommandMap(ParserRules(refreshed.session.rules))
  /\ probed' = Null
  /\ argument' = Null
  /\ op' = "refreshRules"
  /\ Returned
  /\ UNCHANGED <<store, context, lastCollected, now, engineOptions, issued>>
  /\ UNCHANGED <<retrying, projectContent, calls, cache, cacheConfig, handle>>

\* RulesClient.deleteRule on the client's own RulesClient: the record is
\* marked inactive and the cached rule list of its user is invalidated
DeleteRuleCall(i) ==
  /\ i \in 1..Len(store)
  /\ store' = [store EXCEPT ![i] = Assign(@, "isActive", FALSE)]
  /\ rulesCache' = IF store[i].userId = Config.userId THEN Undefined ELSE rulesCache
  /\ probed' = Null
  /\ argument' = Null
  /\ op' = "deleteRule"
  /\ Returned
  /\ UNCHANGED <<session, suppliedRules, rules, commandMap, context, lastCollected,
                 now, engineOptions, issued>>
  /\ UNCHANGED <<retrying, projectContent, calls, cache, cacheConfig, handle>>

\* a record created in the table by someone else
ExternalCreate(rule) ==
  /\ Len(store) < MaxStored
  /\ store' = CreateRecord(store, RuleToFields(rule))
  /\ probed' = Null
  /\ argument' = Null
  /\ op' = "externalCreate"
  /\ Returned
  /\ UNCHANGED <<rulesCache, session, suppliedRules, rules, commandMap, context,
                 lastCollected, now, engineOptions, issued>>
  /\ UNCHANGED <<retrying, projectContent, calls, cache, cacheConfig, handle>>

\* a record marked inactive in the table by someone else
ExternalDeactivate(i) ==
  /\ i \in 1..Len(store)
  /\ Get(store[i], "isActive", FALSE)
  /\ store' = [store EXCEPT ![i] = Assign(@, "isActive", FALSE)]
  /\ probed' = Null
  /\ argument' = Null
  /\ op' = "externalDeactivate"
  /\ Returned
  /\ UNCHANGED <<rulesCache, session, suppliedRules, rules, commandMap, context,
                 lastCollected, now, engineOptions, issued>>
  /\ UNCHANGED <<retrying, projectContent, calls, cache, cacheConfig, handle>>

Elapse(d) ==
  /\ now + d <= MaxRefreshTime
  /\ now' = now + d
  /\ probed' = Null
  /\ argument' = Null
  /\ op' = "tick"
  /\ Returned
  /\ UNCHANGED <<suppliedRules, rules, commandMap, context, lastCollected, store,
                 rulesCache, session, engineOptions, issued>>
  /\ UNCHANGED <<retrying, projectContent, calls, cache, cacheConfig, handle>>

\* the probes of the one collection initialize() makes: outside a repository
NoRepository == [ok |-> FALSE]
NoListing == [ok |-> FALSE, cwd |-> "/work"]

NextRefresh ==
  \/ InitializeSession(NoRepository, NoListing)
  \/ RefreshRulesCall
  \/ \E i \in 1..Len(store) : DeleteRuleCall(i)
  \/ \E rule \in ExternalRules : ExternalCreate(rule)
  \/ \E i \in 1..Len(store) : ExternalDeactivate(i)
  \/ \E d \in RefreshTickSteps : Elapse(d)

SpecRefresh == Init /\ [][NextRefresh]_vars

(***************************************************************************)
(* Cache (utils/cache.ts): a Map from key to {data, expiresAt}, held here  *)
(* as the sequence of its entries in insertion order, each with its key.   *)
(* Times are in seconds.                                                   *)
(***************************************************************************)
MaxCacheSize == 2   \* largest maxSize a Cache is built with
MaxCacheTime == 3   \* the clock of the Cache on its own stops here

MapHas(entries, key) == \E i \in 1..Len(entries) : entries[i].key = key

MapGet(entries, key) ==
  entries[CHOOSE i \in 1..Len(entries) : entries[i].key = key]

MapDelete(entries, key) == SelectSeq(entries, LAMBDA e : e.key # key)

\* Map.prototype.set: an existing key keeps its place in the order
MapSet(entries, key, entry) ==
  IF MapHas(entries, key)
  THEN [i \in 1..Len(entries) |->
          IF entries[i].key = key THEN entry ELSE entries[i]]
  ELSE Append(entries, entry)

\* Cache.get: the value returned ([data |-> v] or Null) and the map afterwards
CacheMapGet(entries, config, key, t) ==
  IF ~config.enabled THEN [value |-> Null, cache |-> entries]
  ELSE IF ~MapHas(entries, key) THEN [value |-> Null, cache |-> entries]
  ELSE IF t > MapGet(entries, key).expiresAt
       THEN [value |-> Null, cache |-> MapDelete(entries, key)]
       ELSE [value |-> [data |-> MapGet(entries, key).data], cache |-> entries]

\* a set that stores whether or not the cache is enabled
CacheMapSetAlways(entries, config, args, t) ==
  LET evicted == IF /\ Len(entries) >= config.maxSize
                    /\ Len(entries) > 0 /\ entries[1].key # ""
                 THEN MapDelete(entries, entries[1].key) ELSE entries
      given == Get(args, "ttl", 0)
      effectiveTtl == IF given # 0 THEN given ELSE config.ttl
  IN  MapSet(evicted, args.key,
             [key |-> args.key, data |-> args.value,
              expiresAt |-> t + effectiveTtl])

\* Cache.set(key, value, ttl?): the map afterwards.  if (firstKey) is false
\* for the empty string and for the undefined of an empty map; ttl ||
\* config.ttl takes config.ttl for an absent ttl and for 0
CacheMapSet(entries, config, args, t) ==
  IF ~config.enabled THEN entries
  ELSE
  LET evicted == IF /\ Len(entries) >= config.maxSize
                    /\ Len(entries) > 0 /\ entries[1].key # ""
                 THEN MapDelete(entries, entries[1].key) ELSE entries
      given == Get(args, "ttl", 0)
      effectiveTtl == IF given # 0 THEN given ELSE config.ttl
  IN  MapSet(evicted, args.key,
             [key |-> args.key, data |-> args.value,
              expiresAt |-> t + effectiveTtl])

\* the configuration of the Cache tests: one second
TestCacheTtl == 1

CacheConfigs ==
  {[enabled |-> e, ttl |-> TestCacheTtl, maxSize |-> m] :
     e \in BOOLEAN, m \in 1..MaxCacheSize}

CacheKeys == {"", "key1", "key2"}

CacheValues == {"value1", "value2"}

\* set(key, value) and set(key, value, ttl)
CacheSetArguments ==
  {[key |-> k, value |-> v] : k \in CacheKeys, v \in CacheValues}
    \cup {[key |-> k, value |-> v, ttl |-> ttl] :
            k \in CacheKeys, v \in CacheValues, ttl \in {0, 2}}

InitCache ==
  /\ cacheConfig \in CacheConfigs
  /\ cache = <<>>
  /\ handle = Null
  /\ retrying = Null /\ projectContent = <<>> /\ calls = <<>>
  /\ suppliedRules = <<>>
  /\ rules = <<>>
  /\ commandMap = BuildCommandMap(<<>>)
  /\ context = NewContext(NoSettings)
  /\ lastCollected = Undefined
  /\ now = 0
  /\ store = <<>>
  /\ rulesCache = Undefined
  /\ session = Undefined
  /\ engineOptions = EngineOptions(NoSettings)
  /\ probed = Null /\ argument = Null /\ issued = <<>>
  /\ op = "init"
  /\ NoOutput

CacheOnly ==
  UNCHANGED <<suppliedRules, rules, commandMap, context, lastCollected, store,
              rulesCache, session, engineOptions, probed, issued, cacheConfig, handle,
              retrying, projectContent, calls,
              input, parsed, matches, best, executed>>

CacheSetCall(args) ==
  /\ cache' = CacheMapSet(cache, cacheConfig, args, now)
  /\ argument' = args
  /\ result' = Null
  /\ op' = "set"
  /\ UNCHANGED now
  /\ CacheOnly

CacheGetCall(key) ==
  /\ cache' = CacheMapGet(cache, cacheConfig, key, now).cache
  /\ result' = CacheMapGet(cache, cacheConfig, key, now).value
  /\ argument' = [key |-> key]
  /\ op' = "get"
  /\ UNCHANGED now
  /\ CacheOnly

\* Cache.invalidate
CacheInvalidateCall(key) ==
  /\ cache' = MapDelete(cache, key)
  /\ argument' = [key |-> key]
  /\ result' = Null
  /\ op' = "invalidate"
  /\ UNCHANGED now
  /\ CacheOnly

\* Cache.clear
CacheClearCall ==
  /\ cache' = <<>>
  /\ argument' = Null
  /\ result' = Null
  /\ op' = "clear"
  /\ UNCHANGED now
  /\ CacheOnly

CacheTick ==
  /\ now < MaxCacheTime
  /\ now' = now + 1
  /\ argument' = Null
  /\ result' = Null
  /\ op' = "tick"
  /\ UNCHANGED cache
  /\ CacheOnly

NextCache ==
  \/ \E args \in CacheSetArguments : CacheSetCall(args)
  \/ \E key \in CacheKeys : CacheGetCall(key)
  \/ \E key \in CacheKeys : CacheInvalidateCall(key)
  \/ CacheClearCall
  \/ CacheTick

SpecCache == InitCache /\ [][NextCache]_vars

(***************************************************************************)
(* The parser on its own: a CommandParser built over a caller's rule list  *)
(* and called with caller-supplied contexts                                *)
(***************************************************************************)
Pattern(type, value) == [type |-> type, value |-> value]

PatternOp(type, value, operator) ==
  [type |-> type, value |-> value, operator |-> operator]

ShipUpper == <<"S", "H", "I", "P">>

RulePool ==
  { [id |-> 11, userId |-> "user", ruleType |-> "WORKFLOW", trigger |-> Ship,
     action |-> [type |-> "macro", steps |-> ShipSteps],
     priority |-> 50, isActive |-> TRUE],
    [id |-> 12, userId |-> "user", ruleType |-> "WORKFLOW", trigger |-> ShipUpper,
     contextPatterns |-> <<Pattern("activity", <<"Coding">>),
                           PatternOp("file_type", <<"TS">>, "contains")>>,
     action |-> [type |-> "macro", steps |-> <<"lint">>,
                 options |-> [dry_run |-> TRUE]],
     priority |-> 100, isActive |-> TRUE],
    [id |-> 13, userId |-> "user", ruleType |-> "BEHAVIOR", trigger |-> Ship,
     contextPatterns |-> <<Pattern("event", <<"build_failed">>)>>,
     action |-> [type |-> "behavior", steps |-> <<"notify">>],
     priority |-> 50, isActive |-> TRUE],
    [id |-> 14, userId |-> "user", ruleType |-> "COMMAND", trigger |-> <<"g", "o">>,
     contextPatterns |-> <<PatternOp("task_state", <<"ready_to_proceed">>, "not_equals")>>,
     action |-> [type |-> "contextual_execution",
                 handlers |-> [blocked |-> [response |-> "explain_blocking_reason"],
                               default |-> [response |-> "show_current_status"]]],
     priority |-> 100, isActive |-> TRUE],
    [id |-> 15, userId |-> "user", ruleType |-> "WORKFLOW", trigger |-> Ship,
     contextPatterns |-> <<>>,
     action |-> [type |-> "workflow", steps |-> <<"deploy">>],
     priority |-> 200, isActive |-> FALSE],
    [id |-> 16, userId |-> "user", ruleType |-> "COMMAND", trigger |-> Go,
     contextPatterns |-> <<PatternOp("task_state", <<"^", "BLOCKED", "$">>, "matches"),
                           Pattern("custom", <<"x">>)>>,
     action |-> [type |-> "preference", settings |-> [verbosity |-> "detailed"]],
     priority |-> 60, isActive |-> TRUE] }

\* the rules a new user's session holds
DefaultRules == CreatedDefaultRules(<<>>, Config.userId)

SeqsUpTo(S, n) == UNION {[1..k -> S] : k \in 0..n}

RuleLists == SeqsUpTo(RulePool, MaxRules) \cup {DefaultRules}

ContextExtras ==
  { [x \in {} |-> TRUE],
    [fileTypes |-> << <<".", "ts">> >>, build_failed |-> TRUE,
     lastCommand |-> Go, custom |-> <<"X">>] }

ContextPool ==
  { extra @@ ts @@ act :
      extra \in ContextExtras,
      ts \in {[x \in {} |-> TRUE], [taskState |-> "ready_to_proceed"],
              [taskState |-> "blocked"]},
      act \in {[x \in {} |-> TRUE], [currentActivity |-> "coding"]} }

ParserInputs ==
  { Go, <<"G", "O">>, <<" ", "S", "h", "i", "p", " ", "\t", "n", "o", "w">>,
    Done, Gibberish }

\* rules whose action payload lacks what its type requires
MalformedRules ==
  { [id |-> 21, userId |-> "user", ruleType |-> "COMMAND", trigger |-> Go,
     action |-> [type |-> "contextual_execution"],
     priority |-> 100, isActive |-> TRUE],
    [id |-> 22, userId |-> "user", ruleType |-> "WORKFLOW", trigger |-> Ship,
     action |-> [type |-> "macro"],
     priority |-> 100, isActive |-> TRUE],
    [id |-> 23, userId |-> "user", ruleType |-> "COMMAND", trigger |-> Done,
     contextPatterns |-> <<>>, action |-> NoSettings,
     priority |-> 100, isActive |-> TRUE] }

\* executeAction takes any rule, held by the parser or not
ExecutableRules ==
  {suppliedRules[i] : i \in 1..Len(suppliedRules)} \cup MalformedRules

InitParser ==
  /\ suppliedRules \in RuleLists
  /\ rules = ParserRules(suppliedRules)
  /\ commandMap = BuildCommandMap(rules)
  /\ context = NewContext(NoSettings)
  /\ lastCollected = Undefined
  /\ now = 0
  /\ store = <<>>
  /\ rulesCache = Undefined
  /\ session = Undefined
  /\ engineOptions = EngineOptions(NoSettings)
  /\ probed = Null /\ argument = Null /\ issued = <<>>
  /\ op = "init"
  /\ cache = <<>> /\ cacheConfig = Config.cache
  /\ handle = Null
  /\ retrying = Null /\ projectContent = <<>> /\ calls = <<>>
  /\ NoOutput

ParserOnly ==
  UNCHANGED <<lastCollected, now, store, rulesCache, session,
              engineOptions, probed, issued, cache, cacheConfig, handle,
              retrying, projectContent, calls>>

\* the calls below leave the parser as it is, so every rule list is already
\* reached by updating before the first of them
UpdateRulesCall(list) ==
  /\ op \in {"init", "updateRules"}
  /\ suppliedRules' = list
  /\ rules' = ParserRules(list)
  /\ commandMap' = BuildCommandMap(ParserRules(list))
  /\ op' = "updateRules"
  /\ Returned
  /\ UNCHANGED context
  /\ argument' = Null
  /\ ParserOnly

ParseCall(in) ==
  /\ input' = in
  /\ parsed' = Parse(commandMap, in)
  /\ matches' = <<>> /\ best' = Null /\ executed' = Null /\ result' = Null
  /\ op' = "parse"
  /\ UNCHANGED <<suppliedRules, rules, commandMap, context>>
  /\ argument' = Null
  /\ ParserOnly

\* matchRules returns the matches, or throws what a pattern without a value
\* makes compareValues throw
MatchRulesCall(in, ctx) ==
  /\ input' = in
  /\ parsed' = Parse(commandMap, in)
  /\ context' = ctx
  /\ IF MatchRulesThrows(commandMap, Parse(commandMap, in), ctx)
     THEN /\ matches' = <<>>
          /\ result' = Rejected(<<"Cannot read properties of undefined">>)
     ELSE /\ matches' = MatchRules(commandMap, Parse(commandMap, in), ctx)
          /\ result' = Null
  /\ best' = Null /\ executed' = Null
  /\ op' = "matchRules"
  /\ UNCHANGED <<suppliedRules, rules, commandMap>>
  /\ argument' = Null
  /\ ParserOnly

GetBestMatchCall(in, ctx) ==
  /\ input' = in
  /\ parsed' = Parse(commandMap, in)
  /\ context' = ctx
  /\ matches' = MatchRules(commandMap, Parse(commandMap, in), ctx)
  /\ best' = GetBestMatch(commandMap, Parse(commandMap, in), ctx)
  /\ executed' = Null /\ result' = Null
  /\ op' = "getBestMatch"
  /\ UNCHANGED <<suppliedRules, rules, commandMap>>
  /\ argument' = Null
  /\ ParserOnly

\* executeAction on the rule getBestMatch has just returned
ExecuteBestCall ==
  /\ op = "getBestMatch"
  /\ best # Null
  /\ executed' = best
  /\ result' = ExecuteAction(best.rule, context)
  /\ context' = ContextAfterExecute(best.rule, context)
  /\ argument' = [value |-> context]
  /\ op' = "executeBest"
  /\ UNCHANGED <<suppliedRules, rules, commandMap, input, parsed, matches, best>>
  /\ ParserOnly

\* executeAction on any rule
ExecuteActionCall(rule, ctx) ==
  /\ context' = ContextAfterExecute(rule, ctx)
  /\ argument' = [value |-> ctx]
  /\ executed' = [rule |-> rule]
  /\ result' = ExecuteAction(rule, ctx)
  /\ input' = <<>> /\ parsed' = Null /\ matches' = <<>> /\ best' = Null
  /\ op' = "executeAction"
  /\ UNCHANGED <<suppliedRules, rules, commandMap>>
  /\ ParserOnly

NextParser ==
  \/ \E list \in RuleLists : UpdateRulesCall(list)
  \/ \E in \in ParserInputs : ParseCall(in)
  \/ \E in \in ParserInputs, ctx \in ContextPool : MatchRulesCall(in, ctx)
  \/ \E in \in ParserInputs, ctx \in ContextPool : GetBestMatchCall(in, ctx)
  \/ ExecuteBestCall
  \/ \E rule \in ExecutableRules, ctx \in ContextPool :
       ExecuteActionCall(rule, ctx)

SpecParser == InitParser /\ [][NextParser]_vars

(***************************************************************************)
(* Pattern evaluation: a CommandParser over a rule that carries one        *)
(* context pattern and a rule that carries none, matched against contexts  *)
(* in which each field is present or absent                                *)
(***************************************************************************)
PatternTypes == {"task_state", "activity", "file_type", "event", "custom"}

Operators == {"equals", "contains", "matches", "not_equals"}

\* sources new RegExp rejects with a SyntaxError
InvalidRegExps == { <<"(">>, <<"[", "blocked">>, <<"*">> }

\* expected values: names of context fields, values those fields hold,
\* regular expressions
PatternValues ==
  { <<"blocked">>, <<"build_failed">>, <<"coding">>, <<".", "ts">>,
    <<"^", "blocked", "$">> } \cup InvalidRegExps

\* a ContextPattern with or without operator, and one without value
EvaluatedPatterns ==
  {PatternOp(t, v, o) : t \in PatternTypes, v \in PatternValues, o \in Operators}
    \cup {Pattern(t, v) : t \in PatternTypes, v \in PatternValues}
    \cup {[type |-> "task_state", operator |-> "matches"]}

PatternRule(pattern) ==
  [id |-> 31, userId |-> "user", ruleType |-> "COMMAND", trigger |-> Go,
   contextPatterns |-> <<pattern>>,
   action |-> [type |-> "preference", settings |-> [verbosity |-> "detailed"]],
   priority |-> 50, isActive |-> TRUE]

UnconditionalRule ==
  [id |-> 32, userId |-> "user", ruleType |-> "COMMAND", trigger |-> Go,
   action |-> [type |-> "preference", settings |-> [verbosity |-> "concise"]],
   priority |-> 40, isActive |-> TRUE]

PatternRuleLists == {<<PatternRule(p), UnconditionalRule>> : p \in EvaluatedPatterns}

Absent == [x \in {} |-> TRUE]

EvaluatedContexts ==
  { ts @@ act @@ ft @@ ev @@ cu :
      ts \in {Absent, [taskState |-> "blocked"]},
      act \in {Absent, [currentActivity |-> "coding"]},
      ft \in {Absent, [fileTypes |-> <<>>], [fileTypes |-> << <<".", "ts">> >>]},
      ev \in {Absent, [build_failed |-> TRUE]},
      cu \in {Absent, [custom |-> <<"build_failed">>], [custom |-> <<"blocked">>]} }

InitPatterns ==
  /\ suppliedRules \in PatternRuleLists
  /\ rules = ParserRules(suppliedRules)
  /\ commandMap = BuildCommandMap(rules)
  /\ context = NewContext(NoSettings)
  /\ lastCollected = Undefined
  /\ now = 0
  /\ store = <<>>
  /\ rulesCache = Undefined
  /\ session = Undefined
  /\ engineOptions = EngineOptions(NoSettings)
  /\ probed = Null /\ argument = Null /\ issued = <<>>
  /\ op = "init"
  /\ cache = <<>> /\ cacheConfig = Config.cache
  /\ handle = Null
  /\ retrying = Null /\ projectContent = <<>> /\ calls = <<>>
  /\ NoOutput

NextPatterns ==
  \/ \E list \in PatternRuleLists : UpdateRulesCall(list)
  \/ \E ctx \in EvaluatedContexts : MatchRulesCall(Go, ctx)

SpecPatterns == InitPatterns /\ [][NextPatterns]_vars

(***************************************************************************)
(* The context engine on its own: a ContextEngine built by a caller and    *)
(* driven through its public methods                                       *)
(***************************************************************************)
InitialContexts ==
  { NoSettings, [taskState |-> "paused", currentActivity |-> "planning"] }

EngineTodoLists ==
  { <<>>,
    <<Todo(1, "completed"), Todo(2, "in_progress")>>,
    <<Todo(1, "completed"), Todo(2, "completed")>>,
    <<Todo(1, "completed"), Todo(2, "pending")>>,
    <<Todo(1, "pending")>> }

\* partial contexts a caller may hand to updateContext
ContextUpdates ==
  { [currentActivity |-> "debugging"],
    [taskState |-> "waiting_for_user", lastCommand |-> Go],
    [todoList |-> <<>>] }

\* no parser, no rule store and no session take part
EngineOnly ==
  /\ UNCHANGED <<suppliedRules, rules, commandMap, store, rulesCache, session,
                 cache, cacheConfig, retrying, projectContent, calls>>
  /\ Returned

InitEngine ==
  /\ context \in {NewContext(initial) : initial \in InitialContexts}
  /\ lastCollected = Undefined
  /\ engineOptions = EngineOptions(NoSettings)
  /\ now = 0
  /\ probed = Null /\ argument = Null /\ issued = <<>>
  /\ suppliedRules = <<>>
  /\ rules = <<>>
  /\ commandMap = BuildCommandMap(<<>>)
  /\ store = <<>>
  /\ rulesCache = Undefined
  /\ session = Undefined
  /\ op = "init"
  /\ cache = <<>> /\ cacheConfig = Config.cache
  /\ handle = Null
  /\ retrying = Null /\ projectContent = <<>> /\ calls = <<>>
  /\ NoOutput

CollectContextCall(git, file) ==
  /\ LET collected == CollectContext([context |-> context,
                                      lastCollected |-> lastCollected,
                                      options |-> engineOptions], now, git, file)
     IN  /\ context' = collected.context
         /\ lastCollected' = collected.lastCollected
  /\ probed' = IF CacheFresh(engineOptions, lastCollected, now) THEN Null
                ELSE [git |-> git, file |-> file]
  /\ argument' = Null
  /\ op' = "collectContext"
  /\ UNCHANGED <<now, engineOptions, issued, handle>>
  /\ EngineOnly

UpdateContextCall(partial) ==
  /\ context' = UpdateContext(context, partial)
  /\ lastCollected' = LastCollectedAfter("updateContext", lastCollected)
  /\ handle' = HandleAfterReplace(handle, context)
  /\ probed' = Null
  /\ argument' = [value |-> partial]
  /\ op' = "updateContext"
  /\ UNCHANGED <<now, engineOptions, issued>>
  /\ EngineOnly

EngineSetTaskState(state) ==
  /\ context' = SetTaskState(context, state)
  /\ probed' = Null
  /\ argument' = [value |-> state]
  /\ op' = "setTaskState"
  /\ lastCollected' = LastCollectedAfter("setTaskState", lastCollected)
  /\ UNCHANGED <<now, engineOptions, issued, handle>>
  /\ EngineOnly

EngineUpdateTodoContext(todos) ==
  /\ context' = UpdateTodoContext(context, todos)
  /\ probed' = Null
  /\ argument' = [value |-> todos]
  /\ op' = "updateTodoContext"
  /\ lastCollected' = LastCollectedAfter("updateTodoContext", lastCollected)
  /\ UNCHANGED <<now, engineOptions, issued, handle>>
  /\ EngineOnly

AutoInferCall ==
  /\ context' = AutoInfer(context)
  /\ probed' = Null
  /\ argument' = Null
  /\ op' = "autoInfer"
  /\ lastCollected' = LastCollectedAfter("autoInfer", lastCollected)
  /\ UNCHANGED <<now, engineOptions, issued, handle>>
  /\ EngineOnly

ResetCall ==
  /\ context' = Reset(now)
  /\ lastCollected' = LastCollectedAfter("reset", lastCollected)
  /\ handle' = HandleAfterReplace(handle, context)
  /\ probed' = Null
  /\ argument' = Null
  /\ op' = "reset"
  /\ UNCHANGED <<now, engineOptions, issued>>
  /\ EngineOnly

ClearCacheCall ==
  /\ lastCollected' = LastCollectedAfter("clearCache", lastCollected)
  /\ probed' = Null
  /\ argument' = Null
  /\ op' = "clearCache"
  /\ UNCHANGED <<context, now, engineOptions, issued, handle>>
  /\ EngineOnly

NextEngine ==
  \/ \E git \in GitOutcomes, file \in FileOutcomes : CollectContextCall(git, file)
  \/ \E partial \in ContextUpdates : UpdateContextCall(partial)
  \/ \E state \in TaskStates : EngineSetTaskState(state)
  \/ \E todos \in EngineTodoLists : EngineUpdateTodoContext(todos)
  \/ AutoInferCall
  \/ ResetCall

SpecEngine == InitEngine /\ [][NextEngine]_vars

(***************************************************************************)
(* Collection and its freshness window: the same engine with a clock, the  *)
(* options of its constructor and every outcome of its probes              *)
(***************************************************************************)
OptionsPool == { NoSettings, [cacheEnabled |-> FALSE], [cacheTTL |-> 29] }

CollectGitOutcomes ==
  GitOutcomes \cup
  { [ok |-> TRUE, branch |-> <<"main", "\n">>, statusOk |-> FALSE],
    [ok |-> TRUE, branch |-> <<"main", "\n">>, status |-> <<" ", "M", " ", "a.ts", "\n">>,
     unpushedOk |-> FALSE] }

CollectUpdates ==
  { [currentActivity |-> "debugging"],
    [gitBranch |-> <<"feature">>, taskState |-> "blocked"] }

CollectTickSteps == {DefaultCacheTtl - 1, DefaultCacheTtl}

InitCollect ==
  /\ context = NewContext(NoSettings)
  /\ lastCollected = Undefined
  /\ engineOptions \in {EngineOptions(options) : options \in OptionsPool}
  /\ now = 0
  /\ probed = Null /\ argument = Null /\ issued = <<>>
  /\ suppliedRules = <<>>
  /\ rules = <<>>
  /\ commandMap = BuildCommandMap(<<>>)
  /\ store = <<>>
  /\ rulesCache = Undefined
  /\ session = Undefined
  /\ op = "init"
  /\ cache = <<>> /\ cacheConfig = Config.cache
  /\ handle = Null
  /\ retrying = Null /\ projectContent = <<>> /\ calls = <<>>
  /\ NoOutput

\* time passes between two calls
Advance(d) ==
  /\ now + d <= MaxCollectTime
  /\ now' = now + d
  /\ probed' = Null
  /\ argument' = Null
  /\ op' = "advance"
  /\ UNCHANGED <<context, lastCollected, engineOptions, issued, handle>>
  /\ EngineOnly

NextCollect ==
  \/ \E git \in CollectGitOutcomes, file \in FileOutcomes : CollectContextCall(git, file)
  \/ \E partial \in CollectUpdates : UpdateContextCall(partial)
  \/ ClearCacheCall
  \/ \E d \in CollectTickSteps : Advance(d)

SpecCollect == InitCollect /\ [][NextCollect]_vars

(***************************************************************************)
(* The command history: one engine given a long run of commands.  The k-th *)
(* command carries the number k, so that a lost, repeated or misplaced     *)
(* entry shows.                                                            *)
(***************************************************************************)
NthCommand(k) == <<"cmd", " ">> \o NumberToString(k)

RecordCommandCall(command) ==
  /\ Len(issued) < MaxRecorded
  /\ context' = RecordCommand(context, command)
  /\ issued' = Append(issued, command)
  /\ probed' = Null
  /\ argument' = [value |-> command]
  /\ op' = "recordCommand"
  /\ lastCollected' = LastCollectedAfter("recordCommand", lastCollected)
  /\ UNCHANGED <<now, engineOptions, handle>>
  /\ EngineOnly

NextHistory ==
  \/ \E command \in {NthCommand(Len(issued) + 1)} : RecordCommandCall(command)
  \/ \E state \in TaskStates : EngineSetTaskState(state)

SpecHistory == InitEngine /\ [][NextHistory]_vars

(***************************************************************************)
(* Every public method of one engine, with a clock                         *)
(***************************************************************************)
SetActivityCall(activity) ==
  /\ context' = SetActivity(context, activity)
  /\ lastCollected' = LastCollectedAfter("setActivity", lastCollected)
  /\ probed' = Null
  /\ argument' = [value |-> activity]
  /\ op' = "setActivity"
  /\ UNCHANGED <<now, engineOptions, issued, handle>>
  /\ EngineOnly

ApplyPreferencesCall(preferences) ==
  /\ context' = ApplyPreferences(context, preferences)
  /\ lastCollected' = LastCollectedAfter("applyPreferences", lastCollected)
  /\ probed' = Null
  /\ argument' = [value |-> preferences]
  /\ op' = "applyPreferences"
  /\ UNCHANGED <<now, engineOptions, issued, handle>>
  /\ EngineOnly

\* getContext: the caller is handed the engine's object
GetContextCall ==
  /\ lastCollected' = LastCollectedAfter("getContext", lastCollected)
  /\ probed' = Null
  /\ argument' = Null
  /\ op' = "getContext"
  /\ UNCHANGED <<context, now, engineOptions, issued, handle>>
  /\ EngineOnly

MethodUpdates == { [currentActivity |-> "debugging"] }
MethodTodoLists == { <<Todo(1, "completed"), Todo(2, "in_progress")>> }
MethodPreferences == { [verbosity |-> "detailed"] }

NextMethods ==
  \/ \E git \in {NoRepository}, file \in {NoListing} : CollectContextCall(git, file)
  \/ \E partial \in MethodUpdates : UpdateContextCall(partial)
  \/ \E state \in {"blocked"} : EngineSetTaskState(state)
  \/ \E activity \in {"planning"} : SetActivityCall(activity)
  \/ \E command \in {Go} : Len(issued) < MaxCommands /\ RecordCommandCall(command)
  \/ \E todos \in MethodTodoLists : EngineUpdateTodoContext(todos)
  \/ \E preferences \in MethodPreferences : ApplyPreferencesCall(preferences)
  \/ AutoInferCall
  \/ GetContextCall
  \/ ClearCacheCall
  \/ ResetCall
  \/ \E d \in CollectTickSteps : Advance(d)

SpecMethods == InitCollect /\ [][NextMethods]_vars

(***************************************************************************)
(* retry(fn, options): one call, a step for each stretch between two       *)
(* awaits.  fn is given by what its successive invocations settle with.    *)
(***************************************************************************)
MaxAttempts == 3

\* the error the k-th invocation of fn rejects with
FnError(k) == [message |-> "failed", invocation |-> k]

FnValue(k) == [value |-> "done", invocation |-> k]

\* fn: for each invocation, whether it resolves
FnBehaviours == SeqsUpTo(BOOLEAN, MaxAttempts) \ SeqsUpTo(BOOLEAN, MaxAttempts - 1)

RetryOptionsPool ==
  {[attempts |-> n, delay |-> d, onRetry |-> c] :
     n \in 1..MaxAttempts, d \in {100, 1000}, c \in BOOLEAN}
    \cup {[attempts |-> n, delay |-> d, onRetry |-> c, backoff |-> b] :
            n \in 1..MaxAttempts, d \in {100, 1000}, c \in BOOLEAN, b \in BOOLEAN}

\* a delay that doubles from the first wait on
DelayMsDoubledAtOnce(options, attempt) ==
  IF Get(options, "backoff", TRUE) THEN options.delay * 2 ^ attempt
  ELSE options.delay

\* backoff ? delay * Math.pow(2, attempt - 1) : delay, backoff = true by default
DelayMs(options, attempt) ==
  IF Get(options, "backoff", TRUE) THEN options.delay * 2 ^ (attempt - 1)
  ELSE options.delay

RetryOnly ==
  /\ UNCHANGED <<suppliedRules, rules, commandMap, context, lastCollected, now, store,
                 rulesCache, session, engineOptions, probed, argument, issued, cache,
                 cacheConfig, handle, projectContent, calls>>
  /\ Returned

InitRetry ==
  /\ retrying \in {[options |-> o, fn |-> f, pc |-> "invoke", attempt |-> 1,
                     invoked |-> <<>>, onRetryCalls |-> <<>>, waits |-> <<>>,
                     lastError |-> Undefined, result |-> Undefined] :
                      o \in RetryOptionsPool, f \in FnBehaviours}
  /\ suppliedRules = <<>>
  /\ rules = <<>>
  /\ commandMap = BuildCommandMap(<<>>)
  /\ context = NewContext(NoSettings)
  /\ lastCollected = Undefined
  /\ now = 0
  /\ store = <<>>
  /\ rulesCache = Undefined
  /\ session = Undefined
  /\ engineOptions = EngineOptions(NoSettings)
  /\ probed = Null /\ argument = Null /\ issued = <<>>
  /\ cache = <<>> /\ cacheConfig = Config.cache
  /\ handle = Null
  /\ projectContent = <<>> /\ calls = <<>>
  /\ op = "init"
  /\ NoOutput

\* one turn of the loop up to its next await: fn is invoked and settles; a
\* value is returned, the last failure is thrown, any other failure is
\* reported to onRetry and the sleep begins
RetryInvoke ==
  /\ retrying.pc = "invoke"
  /\ retrying.attempt <= retrying.options.attempts
  /\ LET r == retrying
         k == r.attempt
         called == [r EXCEPT !.invoked = Append(@, k)]
     IN  retrying' =
           IF r.fn[k]
           THEN [called EXCEPT !.pc = "returned", !.result = FnValue(k)]
           ELSE IF k = r.options.attempts
           THEN [called EXCEPT !.pc = "rejected", !.lastError = FnError(k),
                               !.result = FnError(k)]
           ELSE [called EXCEPT
                   !.pc = "sleeping",
                   !.lastError = FnError(k),
                   !.onRetryCalls = IF r.options.onRetry
                                    THEN Append(@, [error |-> FnError(k), attempt |-> k])
                                    ELSE @,
                   !.waits = Append(@, DelayMs(r.options, k))]
  /\ op' = "invoke"
  /\ RetryOnly

\* the timer of sleep(delayMs) fires and the loop goes to its next attempt
RetryWake ==
  /\ retrying.pc = "sleeping"
  /\ retrying' = [retrying EXCEPT !.pc = "invoke", !.attempt = @ + 1]
  /\ op' = "wake"
  /\ RetryOnly

NextRetry == RetryInvoke \/ RetryWake

\* fn settles and timers fire: both continuations are run by the event loop
SpecRetry ==
  InitRetry /\ [][NextRetry]_vars /\ WF_vars(RetryInvoke) /\ WF_vars(RetryWake)

(***************************************************************************)
(* AirtableService.updateProjectContent for one (projectId, contentType):  *)
(* a call with its retries, any request of any attempt failing             *)
(***************************************************************************)
MaxContent == 4

\* config.retryAttempts
RetryAttempts == 3

\* the request of an attempt that fails, if one does
ContentFaults == {"none", "select", "update", "create"}

FaultSchedules == [1..RetryAttempts -> ContentFaults]

ContentTexts == {<<"notes">>, <<"plan">>}

\* the records the select of updateProjectContent returns: {isActive} = TRUE()
ActiveContent(table) == {i \in 1..Len(table) : table[i].isActive}

SetMax(S) == CHOOSE m \in S : \A x \in S : x <= m

\* Math.max(...existing.map((r) => r.get('version') || 1)) + 1, or 1
NextVersion(table) ==
  IF ActiveContent(table) = {} THEN 1
  ELSE SetMax({IF table[i].version = 0 THEN 1 ELSE table[i].version :
                 i \in ActiveContent(table)}) + 1

\* one run of the function updateProjectContent hands to withRetry; a failed
\* request changes nothing in the table and rejects the run
UpdateContentAttempt(table, content, fault) ==
  LET existing == ActiveContent(table)
      deactivated == [i \in 1..Len(table) |->
                        IF i \in existing THEN [table[i] EXCEPT !.isActive = FALSE]
                        ELSE table[i]]
      record == [version |-> NextVersion(table), isActive |-> TRUE, content |-> content]
  IN  IF fault = "select" THEN [ok |-> FALSE, table |-> table]
      ELSE IF fault = "update" /\ existing # {} THEN [ok |-> FALSE, table |-> table]
      ELSE IF fault = "create" THEN [ok |-> FALSE, table |-> deactivated]
      ELSE [ok |-> TRUE, table |-> Append(deactivated, record), record |-> record]

\* withRetry around it: up to RetryAttempts runs, the first success returned
RECURSIVE UpdateProjectContent(_, _, _, _)
UpdateProjectContent(table, content, faults, attempt) ==
  LET run == UpdateContentAttempt(table, content, faults[attempt])
  IN  IF run.ok THEN [table |-> run.table, result |-> run.record]
      ELSE IF attempt = RetryAttempts
      THEN [table |-> run.table, result |-> Rejected(<<"request failed">>)]
      ELSE UpdateProjectContent(run.table, content, faults, attempt + 1)

ContentOnly ==
  UNCHANGED <<suppliedRules, rules, commandMap, context, lastCollected, now, store,
              rulesCache, session, engineOptions, probed, issued, cache,
              cacheConfig, handle, retrying, calls,
              input, parsed, matches, best, executed>>

UpdateProjectContentCall(content, faults) ==
  /\ Len(projectContent) < MaxContent
  /\ LET out == UpdateProjectContent(projectContent, content, faults, 1)
     IN  /\ projectContent' = out.table
         /\ result' = out.result
  /\ argument' = [value |-> content]
  /\ op' = "updateProjectContent"
  /\ ContentOnly

NextContent ==
  \E content \in ContentTexts, faults \in FaultSchedules :
    UpdateProjectContentCall(content, faults)

SpecContent == InitEngine /\ [][NextContent]_vars

(***************************************************************************)
(* Bootstrap with failures: initialize() on an empty rule store, where a   *)
(* createRule of createDefaultRules may fail after its retries             *)
(***************************************************************************)
InitBootstrap == Init /\ store = <<>>

\* initialize() rejected by the createRule after the first k defaults: the k
\* records stay, each successful createRule has invalidated the cached list,
\* and no session is set
InitializeFailing(table, entry, t, k) ==
  LET loaded == LoadRules(table, entry, t)
  IN  [store |-> CreateDefaultsInto(table, Config.userId, k),
       rulesCache |-> IF k = 0 THEN loaded.cache ELSE Undefined]

InitializeFailingCall(k) ==
  /\ session = Undefined
  /\ Len(LoadRules(store, rulesCache, now).rules) = 0
  /\ k < Len(DefaultRuleInputs(Config.userId))
  /\ store' = InitializeFailing(store, rulesCache, now, k).store
  /\ rulesCache' = InitializeFailing(store, rulesCache, now, k).rulesCache
  /\ input' = <<>> /\ parsed' = Null /\ matches' = <<>>
  /\ best' = Null /\ executed' = Null
  /\ result' = Rejected(<<"request failed">>)
  /\ probed' = Null
  /\ argument' = [value |-> k]
  /\ op' = "initializeSession"
  /\ UNCHANGED <<session, suppliedRules, rules, commandMap, context, lastCollected,
                 now, engineOptions, issued>>
  /\ UNCHANGED <<retrying, projectContent, calls, cache, cacheConfig, handle>>

NextBootstrap ==
  \/ \E k \in 0..(Len(DefaultRuleInputs(Config.userId)) - 1) : InitializeFailingCall(k)
  \/ \E git \in {NoRepository}, file \in {NoListing} : InitializeSession(git, file)
  \/ \E in \in {Go, Done}, git \in {NoRepository}, file \in {NoListing} :
       ProcessCommand(in, git, file)
  \/ \E state \in TaskStates : SetTaskStateCall(state)

SpecBootstrap == InitBootstrap /\ [][NextBootstrap]_vars

(***************************************************************************)
(* Calls in flight: the methods of one RulesClient are async, so between   *)
(* two awaits of one call the continuations of other calls run.  A step is *)
(* the stretch of one call from one await to the next; a request reads or  *)
(* writes the store when the store answers it.                             *)
(***************************************************************************)
MaxCalls == 3

WriteKinds == {"createRule", "deleteRule"}

NewCall(kind, pc, arg) ==
  [kind |-> kind, pc |-> pc, arg |-> arg, records |-> <<>>,
   writesDone |-> Cardinality({i \in 1..Len(calls) :
                                 calls[i].kind \in WriteKinds /\ calls[i].pc = "done"}),
   result |-> Undefined]

AsyncOnly ==
  /\ UNCHANGED <<suppliedRules, rules, commandMap, context, lastCollected, now,
                 session, engineOptions, issued, cache, cacheConfig, handle,
                 retrying, projectContent>>
  /\ probed' = Null /\ argument' = Null
  /\ Returned

\* loadRules up to its first await: a cached list is returned at once,
\* otherwise the select is sent
StartLoadRules ==
  /\ Len(calls) < MaxCalls
  /\ LET cached == CacheGet(rulesCache, now)
         call == NewCall("loadRules", "select", Config.userId)
     IN  calls' = Append(calls,
                    IF cached # Null
                    THEN [call EXCEPT !.pc = "done", !.result = cached.data]
                    ELSE call)
  /\ rulesCache' = CacheAfterGet(rulesCache, now)
  /\ op' = "loadRules"
  /\ UNCHANGED store
  /\ AsyncOnly

\* the store answers the select of a loadRules
LoadRulesSelect(c) ==
  /\ calls[c].kind = "loadRules" /\ calls[c].pc = "select"
  /\ calls' = [calls EXCEPT ![c].pc = "set",
                            ![c].records = SelectActiveRules(store, calls[c].arg)]
  /\ op' = "select"
  /\ UNCHANGED <<store, rulesCache>>
  /\ AsyncOnly

\* the continuation of loadRules: cache.set(cacheKey, rules, 3600); return rules
LoadRulesSet(c) ==
  /\ calls[c].kind = "loadRules" /\ calls[c].pc = "set"
  /\ rulesCache' = CacheSet(rulesCache, calls[c].records, RulesCacheTtl, now)
  /\ calls' = [calls EXCEPT ![c].pc = "done", ![c].result = calls[c].records]
  /\ op' = "cacheSet"
  /\ UNCHANGED store
  /\ AsyncOnly

StartCreateRule(rule) ==
  /\ Len(calls) < MaxCalls
  /\ calls' = Append(calls, NewCall("createRule", "write", rule))
  /\ op' = "createRule"
  /\ UNCHANGED <<store, rulesCache>>
  /\ AsyncOnly

\* deleteRule, sent for a record the table holds
StartDeleteRule(i) ==
  /\ Len(calls) < MaxCalls
  /\ i \in 1..Len(store)
  /\ calls' = Append(calls, NewCall("deleteRule", "find", i))
  /\ op' = "deleteRule"
  /\ UNCHANGED <<store, rulesCache>>
  /\ AsyncOnly

\* the store answers the select by id of a deleteRule, which sends its update
DeleteRuleFind(c) ==
  /\ calls[c].kind = "deleteRule" /\ calls[c].pc = "find"
  /\ calls' = [calls EXCEPT ![c].pc = "write"]
  /\ op' = "find"
  /\ UNCHANGED <<store, rulesCache>>
  /\ AsyncOnly

\* the store carries out the create or the update of a write
WriteApplied(c) ==
  /\ calls[c].kind \in WriteKinds /\ calls[c].pc = "write"
  /\ store' = IF calls[c].kind = "createRule"
              THEN CreateRecord(store, RuleToFields(calls[c].arg))
              ELSE [store EXCEPT ![calls[c].arg] = Assign(@, "isActive", FALSE)]
  /\ calls' = [calls EXCEPT ![c].pc = "invalidate"]
  /\ op' = "write"
  /\ UNCHANGED rulesCache
  /\ AsyncOnly

\* the continuation of a write: this.cache.invalidate(`rules:${userId}`)
WriteInvalidate(c) ==
  /\ calls[c].kind \in WriteKinds /\ calls[c].pc = "invalidate"
  /\ rulesCache' = Undefined
  /\ calls' = [calls EXCEPT ![c].pc = "done"]
  /\ op' = "invalidate"
  /\ UNCHANGED store
  /\ AsyncOnly

NextAsync ==
  \/ StartLoadRules
  \/ \E rule \in ExternalRules : StartCreateRule(rule)
  \/ \E i \in 1..Len(store) : StartDeleteRule(i)
  \/ \E c \in 1..Len(calls) : LoadRulesSelect(c)
  \/ \E c \in 1..Len(calls) : LoadRulesSet(c)
  \/ \E c \in 1..Len(calls) : DeleteRuleFind(c)
  \/ \E c \in 1..Len(calls) : WriteApplied(c)
  \/ \E c \in 1..Len(calls) : WriteInvalidate(c)

SpecAsync == Init /\ [][NextAsync]_vars

(***************************************************************************)
(* Sessions being created side by side: initializeSession and, while the   *)
(* client has no session, processCommand run SessionInitializer.initialize *)
(* and none of them waits for another                                      *)
(***************************************************************************)
MaxInitializers == 2

\* the handle initialize() returns for the rules it ends up with, and the
\* engine it has built
HandleFor(sessionRules, t, git, file) ==
  LET preferences == ExtractPreferences(sessionRules, NoSettings)
      fresh == [context |-> NewContext([preferences |-> preferences]),
                lastCollected |-> Undefined,
                options |-> SessionEngineOptions]
      collected == CollectContext(fresh, t, git, file)
  IN  [session |-> [userId |-> Config.userId, rules |-> sessionRules,
                    commandRegistry |-> BuildCommandRegistry(sessionRules),
                    preferences |-> preferences],
       context |-> AutoInfer(collected.context),
       lastCollected |-> collected.lastCollected]

\* where initialize() goes once loadRules has given it the rules
AfterLoad(call, loaded) ==
  [call EXCEPT !.records = loaded,
               !.pc = IF Len(loaded) = 0 THEN "create" ELSE "collect"]

StartupOnly ==
  /\ UNCHANGED <<now, engineOptions, cache, cacheConfig, handle, retrying,
                 projectContent>>
  /\ probed' = Null

StartupPending ==
  /\ UNCHANGED <<session, suppliedRules, rules, commandMap, context, lastCollected,
                 issued>>
  /\ argument' = Null
  /\ Returned
  /\ StartupOnly

\* initializeSession(), or processCommand(in) on a client without a session,
\* up to the first await of loadRules; the call's records are its rules and
\* its result collects the default rules it has created
StartInitialize(kind, in) ==
  /\ Len(calls) < MaxInitializers
  /\ kind = "processCommand" => session = Undefined
  /\ LET cached == CacheGet(rulesCache, now)
         call == [NewCall(kind, "select", in) EXCEPT !.result = <<>>]
     IN  calls' = Append(calls,
                    IF cached # Null THEN AfterLoad(call, cached.data) ELSE call)
  /\ rulesCache' = CacheAfterGet(rulesCache, now)
  /\ op' = "start"
  /\ UNCHANGED store
  /\ StartupPending

InitializeSelect(c) ==
  /\ calls[c].kind \in {"initializeSession", "processCommand"}
  /\ calls[c].pc = "select"
  /\ calls' = [calls EXCEPT ![c].pc = "set",
                            ![c].records = SelectActiveRules(store, Config.userId)]
  /\ op' = "select"
  /\ UNCHANGED <<store, rulesCache>>
  /\ StartupPending

\* loadRules caches and returns the list; initialize tests rules.length === 0
InitializeLoaded(c) ==
  /\ calls[c].pc = "set"
  /\ rulesCache' = CacheSet(rulesCache, calls[c].records, RulesCacheTtl, now)
  /\ calls' = [calls EXCEPT ![c] = AfterLoad(@, @.records)]
  /\ op' = "cacheSet"
  /\ UNCHANGED store
  /\ StartupPending

\* the store carries out the create of the next default rule
InitializeCreate(c) ==
  /\ calls[c].pc = "create"
  /\ store' = CreateRecord(store,
                 RuleToFields(DefaultRuleInputs(Config.userId)[Len(calls[c].result) + 1]))
  /\ calls' = [calls EXCEPT ![c].pc = "created",
                            ![c].result = Append(@, RecordToRule(store'[Len(store')]))]
  /\ op' = "write"
  /\ UNCHANGED rulesCache
  /\ StartupPending

\* the continuation of that createRule, and of createDefaultRules after the
\* last one: rules.push(...defaultRules)
InitializeCreated(c) ==
  /\ calls[c].pc = "created"
  /\ rulesCache' = Undefined
  /\ calls' = [calls EXCEPT
       ![c] = IF Len(@.result) < Len(DefaultRuleInputs(Config.userId))
              THEN [@ EXCEPT !.pc = "create"]
              ELSE [@ EXCEPT !.pc = "collect", !.records = @ \o calls[c].result]]
  /\ op' = "invalidate"
  /\ UNCHANGED store
  /\ StartupPending

\* the probes of collectContext are answered, initialize() returns and the
\* client takes the handle as its session; a processCommand goes on with
\* its command
InitializeReturns(c) ==
  /\ calls[c].pc = "collect"
  /\ LET made == HandleFor(calls[c].records, now, NoRepository, NoListing)
         cmap == BuildCommandMap(ParserRules(calls[c].records))
         out == Process(cmap, [context |-> made.context,
                               lastCollected |-> made.lastCollected,
                               options |-> engineOptions],
                        calls[c].arg, now, NoRepository, NoListing)
     IN  /\ session' = made.session
         /\ suppliedRules' = calls[c].records
         /\ rules' = ParserRules(calls[c].records)
         /\ commandMap' = cmap
         /\ IF calls[c].kind = "processCommand"
            THEN /\ context' = out.context
                 /\ lastCollected' = out.lastCollected
                 /\ input' = calls[c].arg
                 /\ parsed' = out.parsed
                 /\ matches' = out.matches
                 /\ best' = out.best
                 /\ executed' = out.best
                 /\ result' = out.result
                 /\ argument' = [value |-> calls[c].arg]
                 /\ issued' = Append(issued, calls[c].arg)
            ELSE /\ context' = made.context
                 /\ lastCollected' = made.lastCollected
                 /\ argument' = Null
                 /\ Returned
                 /\ UNCHANGED issued
  /\ calls' = [calls EXCEPT ![c].pc = "done"]
  /\ op' = calls[c].kind
  /\ UNCHANGED <<store, rulesCache>>
  /\ StartupOnly

NextStartup ==
  \/ StartInitialize("initializeSession", <<>>)
  \/ \E in \in {Go, Done} : StartInitialize("processCommand", in)
  \/ \E c \in 1..Len(calls) : InitializeSelect(c)
  \/ \E c \in 1..Len(calls) : InitializeLoaded(c)
  \/ \E c \in 1..Len(calls) : InitializeCreate(c)
  \/ \E c \in 1..Len(calls) : InitializeCreated(c)
  \/ \E c \in 1..Len(calls) : InitializeReturns(c)

SpecStartup == InitBootstrap /\ [][NextStartup]_vars

(***************************************************************************)
(* The session handle next to its engine: the caller takes the engine from *)
(* getSessionContext() and calls its methods                               *)
(***************************************************************************)
NextHandle ==
  \/ \E git \in {NoRepository}, file \in {NoListing} : InitializeSession(git, file)
  \/ \E git \in {NoRepository}, file \in {NoListing} :
       session # Undefined /\ CollectContextCall(git, file)
  \/ \E partial \in ContextUpdates : session # Undefined /\ UpdateContextCall(partial)
  \/ \E state \in {"blocked"} : session # Undefined /\ EngineSetTaskState(state)
  \/ \E todos \in MethodTodoLists :
       session # Undefined /\ EngineUpdateTodoContext(todos)
  \/ \E command \in {Go} :
       session # Undefined /\ Len(issued) < MaxCommands /\ RecordCommandCall(command)
  \/ session # Undefined /\ ResetCall

SpecHandle == Init /\ [][NextHandle]_vars

(***************************************************************************)
(* Properties                                                              *)
(***************************************************************************)
\* the first whitespace-separated token of a text, <<>> when there is none
FirstToken(text) ==
  LET starts == {i \in 1..Len(text) : text[i] \notin Whitespace}
  IN  IF starts = {} THEN <<>>
      ELSE LET first == CHOOSE i \in starts : \A j \in starts : i <= j
               stops == {i \in first..Len(text) : text[i] \in Whitespace}
               last == IF stops = {} THEN Len(text)
                       ELSE (CHOOSE i \in stops : \A j \in stops : i <= j) - 1
           IN  SubSeq(text, first, last)

\* two texts that differ at most in letter casing
SameUnderCasing(a, b) ==
  /\ Len(a) = Len(b)
  /\ \A i \in 1..Len(a) : LowerAtom(a[i]) = LowerAtom(b[i])

\* every context pattern of the rule holds against ctx
PatternsAllHold(rule, ctx) ==
  \A i \in 1..Len(Get(rule, "contextPatterns", <<>>)) :
    MatchesContextPattern(rule.contextPatterns[i], ctx)

\* positions in the supplied list of the active rules for the parsed
\* trigger whose patterns hold against the context of the call
MatchingSupplied ==
  {i \in 1..Len(suppliedRules) :
     /\ suppliedRules[i].isActive
     /\ ToLowerCase(suppliedRules[i].trigger) = parsed.trigger
     /\ PatternsAllHold(suppliedRules[i], context)}

\* C1: getBestMatch returns null exactly when no active rule for the parsed
\* trigger has all its context patterns holding; otherwise it returns one
\* of those rules, and no other of them has a higher priority.
C1_BestMatchIsHighestPriority ==
  op = "getBestMatch" =>
    /\ (best = Null) <=> (MatchingSupplied = {})
    /\ best # Null =>
         /\ \E i \in MatchingSupplied : suppliedRules[i] = best.rule
         /\ \A j \in MatchingSupplied :
              best.rule.priority >= suppliedRules[j].priority

\* a best match that beat a matching rule of lower priority
C1_Witness ==
  /\ op = "getBestMatch"
  /\ best # Null
  /\ best.rule.priority = 100
  /\ \E j \in MatchingSupplied : suppliedRules[j].priority = 50

\* a rule equal to rule with one more context pattern
WithPattern(rule, pattern) ==
  Assign(rule, "contextPatterns",
         Append(Get(rule, "contextPatterns", <<>>), pattern))

\* the patterns a caller may add to a rule
PatternPool ==
  { Pattern("task_state", <<"blocked">>),
    PatternOp("task_state", <<"Blocked">>, "not_equals"),
    Pattern("activity", <<"coding">>),
    PatternOp("file_type", <<"ts">>, "contains"),
    Pattern("event", <<"build_failed">>),
    PatternOp("task_state", <<"(">>, "matches") }

InMatches(rule, ms) == \E k \in 1..Len(ms) : ms[k] = rule

\* C2: matchRules returns a candidate exactly when it has no context
\* patterns or all of them hold, and a returned rule given one more pattern
\* that fails is no longer returned.
C2_PatternsAreConjoined ==
  op = "matchRules" =>
    /\ \A i \in 1..Len(suppliedRules) :
         LET r == suppliedRules[i]
         IN  (r.isActive /\ ToLowerCase(r.trigger) = parsed.trigger) =>
               (InMatches(r, matches) <=> PatternsAllHold(r, context))
    /\ \A i \in 1..Len(suppliedRules), p \in PatternPool :
         LET r == suppliedRules[i]
             harder == WithPattern(r, p)
             relisted == [suppliedRules EXCEPT ![i] = harder]
         IN  (InMatches(r, matches) /\ ~MatchesContextPattern(p, context)) =>
               ~InMatches(harder,
                          MatchRules(BuildCommandMap(ParserRules(relisted)),
                                     parsed, context))

\* a rule with two patterns was returned, both holding
C2_Witness ==
  /\ op = "matchRules"
  /\ \E k \in 1..Len(matches) :
       /\ Len(Get(matches[k], "contextPatterns", <<>>)) = 2
       /\ PatternsAllHold(matches[k], context)
  /\ \E p \in PatternPool : ~MatchesContextPattern(p, context)

\* C3: when the first token of the input equals the trigger of a rule the
\* parser holds, under any casing, parse returns that trigger lower-cased
\* and isShorthand = true.
C3_TriggerCaseInsensitive ==
  op = "parse" =>
    \A i \in 1..Len(rules) :
      SameUnderCasing(FirstToken(input), rules[i].trigger) =>
        /\ parsed.trigger = ToLowerCase(rules[i].trigger)
        /\ parsed.isShorthand

\* an input written in another casing than the rule's trigger was parsed
C3_Witness ==
  /\ op = "parse"
  /\ \E i \in 1..Len(rules) :
       /\ SameUnderCasing(FirstToken(input), rules[i].trigger)
       /\ FirstToken(input) # rules[i].trigger
       /\ rules[i].trigger # ToLowerCase(rules[i].trigger)
  /\ parsed.isShorthand

\* no active rule of the session answers to the input's trigger with all
\* its context patterns holding
NoRuleApplies ==
  \A i \in 1..Len(suppliedRules) :
    ~ /\ suppliedRules[i].isActive
      /\ ToLowerCase(suppliedRules[i].trigger) = ToLowerCase(FirstToken(input))
      /\ PatternsAllHold(suppliedRules[i], context)

\* C4: processCommand on an input for which the session has no rule, or
\* none whose context patterns hold, returns success = false with an error
\* that contains the input text, and executes no rule action.
C4_NoMatchIsExplicitFailure ==
  (op = "processCommand" /\ NoRuleApplies) =>
    /\ result.success = FALSE
    /\ Has(result, "error") /\ Includes(result.error, input)
    /\ ~Has(result, "response") /\ ~Has(result, "actions")
    /\ executed = Null

\* "Go" was refused although the session has rules for it
C4_Witness ==
  /\ op = "processCommand" /\ NoRuleApplies
  /\ input = Go
  /\ \E i \in 1..Len(suppliedRules) :
       ToLowerCase(suppliedRules[i].trigger) = <<"g", "o">>
  /\ result.success = FALSE /\ executed = Null

\* C5: with the default rules, "Go" processed against taskState =
\* ready_to_proceed succeeds with the execute_next_logical_step text and
\* metadata.showProgress = true.
C5_GoWhenReady ==
  (/\ op = "processCommand" /\ suppliedRules = DefaultRules
   /\ input = Go /\ context.taskState = "ready_to_proceed") =>
    /\ result.success = TRUE
    /\ result.response = <<"Executing the next logical step...">>
    /\ Get(result.metadata, "showProgress", FALSE) = TRUE

C5_Witness ==
  /\ op = "processCommand" /\ suppliedRules = DefaultRules
  /\ input = Go /\ context.taskState = "ready_to_proceed"
  /\ result.success = TRUE

\* C6: with the default rules, "Done" succeeds with the
\* acknowledge_already_complete text and metadata.showSummary = true,
\* whatever the task state.
C6_DoneIsAcknowledged ==
  (op = "processCommand" /\ suppliedRules = DefaultRules /\ input = Done) =>
    /\ result.success = TRUE
    /\ Get(result, "response", <<>>) = <<"This task is already complete.">>
    /\ Get(Get(result, "metadata", NoSettings), "showSummary", FALSE) = TRUE

\* a contextual_execution rule was the one executed
ExecutedContextual ==
  /\ op \in {"executeAction", "executeBest"}
  /\ executed # Null
  /\ Get(executed.rule.action, "type", "") = "contextual_execution"
  /\ Has(executed.rule.action, "handlers")

LookupState ==
  IF Get(context, "taskState", "") # "" THEN context.taskState
  ELSE "ready_to_proceed"

C8_ExplicitStateIsKept ==
  [][(op = "setTaskState" /\ op' = "processCommand") =>
       /\ context'.taskState = context.taskState
       /\ Get(Get(result', "metadata", NoSettings), "taskState",
              context.taskState) = context.taskState]_vars

\* C9: with the default rules, "Go" matched and executed against taskState =
\* blocked selects the priority-95 rule and succeeds with a response that
\* holds the blocking explanation and the last command, when there is one.
C9_GoWhenBlocked ==
  (/\ op = "executeBest" /\ suppliedRules = DefaultRules
   /\ input = Go /\ Get(context, "taskState", "") = "blocked") =>
    /\ best.rule.priority = 95
    /\ result.success = TRUE
    /\ Includes(result.response, <<"I am currently blocked. ">>)
    /\ Get(context, "lastCommand", <<>>) # <<>> =>
         Includes(result.response, context.lastCommand)

C9_Witness ==
  /\ op = "executeBest" /\ suppliedRules = DefaultRules
  /\ input = Go /\ Get(context, "taskState", "") = "blocked"
  /\ Get(context, "lastCommand", <<>>) # <<>>
  /\ result.success = TRUE

\* a macro rule with a step list was the one executed
ExecutedMacro ==
  /\ op \in {"executeAction", "executeBest"}
  /\ executed # Null
  /\ Get(executed.rule.action, "type", "") = "macro"
  /\ Has(executed.rule.action, "steps")

\* C10: executing a macro succeeds in every context, returns the steps in
\* order as actions, and its response holds the number of steps.
C10_MacroReturnsSteps ==
  ExecutedMacro =>
    /\ result.success = TRUE
    /\ result.actions = executed.rule.action.steps
    /\ Len(executed.rule.action.steps) = 4 => Includes(result.response, <<"4">>)
    /\ Len(executed.rule.action.steps) = 1 => Includes(result.response, <<"1">>)

C10_Witness ==
  /\ ExecutedMacro
  /\ executed.rule.action.steps = <<"test", "build", "commit", "push">>
  /\ result.actions = <<"test", "build", "commit", "push">>
  /\ Includes(result.response, <<"4">>)

\* C11: updateTodoContext(todos) sets taskState to in_progress when some todo
\* is in progress, else to completed when the list is non-empty and all of
\* it is completed, else to ready_to_proceed.
C11_TodoStateRule ==
  op = "updateTodoContext" =>
    LET todos == argument.value
        someInProgress == \E i \in 1..Len(todos) : todos[i].status = "in_progress"
        allCompleted == \A i \in 1..Len(todos) : todos[i].status = "completed"
    IN  context.taskState =
          (IF someInProgress THEN "in_progress"
           ELSE IF Len(todos) > 0 /\ allCompleted THEN "completed"
           ELSE "ready_to_proceed")

\* the empty list was given and left the task state at ready_to_proceed
C11_Witness ==
  /\ op = "updateTodoContext"
  /\ argument.value = <<>>
  /\ context.taskState = "ready_to_proceed"
  /\ context.todoList = <<>>

\* the executed rule's action lacks the map or list its type reads
ExecutedMalformed ==
  /\ op \in {"executeAction", "executeBest"}
  /\ executed # Null
  /\ \/ Get(executed.rule.action, "type", "") = "contextual_execution"
        /\ ~Has(executed.rule.action, "handlers")
     \/ Get(executed.rule.action, "type", "") = "macro"
        /\ ~Has(executed.rule.action, "steps")

\* C12: executeAction returns an ActionResult for every rule, a failed one
\* carries an error, and a rule whose action lacks its handlers map or its
\* steps gives success = false with the TypeError's message as error.
C12_ExecuteActionNeverThrows ==
  /\ op \in {"executeAction", "executeBest"} =>
       /\ Has(result, "success")
       /\ result.success = FALSE => Has(result, "error")
  /\ ExecutedMalformed =>
       result = [success |-> FALSE,
                 error |-> <<"Cannot read properties of undefined">>]

\* a macro without steps was executed and came back as a failed result
C12_Witness ==
  /\ ExecutedMalformed
  /\ executed.rule.action.type = "macro"
  /\ result.success = FALSE

\* C13: processCommand always returns an ActionResult, with an error when
\* it is a failed one; the call is never rejected.
C13_ProcessCommandNeverRaises ==
  op = "processCommand" =>
    /\ ~Has(result, "rejected")
    /\ Has(result, "success")
    /\ result.success = FALSE => Has(result, "error")

\* C14: collectContext returns the context as it is, runs no probe and keeps
\* lastCollected exactly when caching is enabled, a collection exists and its
\* age is below cacheTTL (30 s for an engine built without options);
\* otherwise it runs the git, file and session collections and sets
\* lastCollected to the current time.
C14_CollectUsesFreshCache ==
  [][op' = "collectContext" =>
       LET fresh == /\ engineOptions.cacheEnabled
                    /\ lastCollected # Undefined
                    /\ now - lastCollected.at < engineOptions.cacheTTL
       IN  /\ fresh => /\ probed' = Null
                       /\ context' = context
                       /\ lastCollected' = lastCollected
           /\ ~fresh => /\ probed' # Null
                        /\ lastCollected' = [at |-> now]
                        /\ Has(context', "hasPendingPush")
                        /\ Has(context', "recentFiles")
                        /\ context'.sessionDuration =
                             <<now - context'.sessionStartTime, 60>>
           /\ (engineOptions = EngineOptions(NoSettings) /\ lastCollected # Undefined) =>
                ((probed' = Null) <=> (now - lastCollected.at < 30))]_vars

\* an engine built without options answered from a collection 29 s old
C14_Witness ==
  /\ op = "collectContext"
  /\ engineOptions = EngineOptions(NoSettings)
  /\ probed = Null
  /\ lastCollected # Undefined
  /\ now - lastCollected.at = 29

\* C15: updateContext(partial) gives the context exactly the fields of
\* partial with their values, keeps every other field as it was and clears
\* lastCollected; the collectContext that follows runs the probes.
C15_UpdateInvalidatesCache ==
  [][/\ op' = "updateContext" =>
          LET partial == argument'.value
          IN  /\ DOMAIN context' = DOMAIN context \cup DOMAIN partial
              /\ \A k \in DOMAIN partial : context'[k] = partial[k]
              /\ \A k \in DOMAIN context \ DOMAIN partial : context'[k] = context[k]
              /\ lastCollected' = Undefined
     /\ (op = "updateContext" /\ op' = "collectContext") =>
          /\ probed' # Null
          /\ lastCollected' = [at |-> now]]_vars

\* updateContext overwrote a field right after a collection made at the
\* current time, with caching enabled
C15_Witness ==
  /\ op = "updateContext"
  /\ engineOptions.cacheEnabled
  /\ lastCollected = Undefined
  /\ Has(context, "sessionDuration")
  /\ context.sessionStartTime + context.sessionDuration[1] = now
  /\ argument.value = [gitBranch |-> <<"feature">>, taskState |-> "blocked"]
  /\ context.gitBranch = <<"feature">>
  /\ Has(context, "gitStatus")

\* the probes the last collection ran
GitProbeFailed ==
  ~probed.git.ok \/ ~Get(probed.git, "statusOk", TRUE)

UnpushedProbeFailed ==
  ~GitProbeFailed /\ ~probed.git.unpushedOk

GitDefaults ==
  /\ ~Has(context, "gitBranch") /\ ~Has(context, "gitStatus")
  /\ context.hasUncommittedChanges = FALSE
  /\ context.hasPendingPush = FALSE

FileDefaults ==
  context.recentFiles = <<>> /\ context.fileTypes = <<>>

C17_HistoryIsCapped ==
  Len(issued) > 0 =>
    LET n == Len(issued)
        history == context.commandHistory
        recent == context.recentCommands
        kept == IF n < 50 THEN n ELSE 50
        shown == IF n < 10 THEN n ELSE 10
    IN  /\ Len(history) = kept
        /\ \A i \in 1..kept : history[i] = issued[n - kept + i]
        /\ context.lastCommand = history[kept]
        /\ Len(recent) = shown
        /\ \A i \in 1..shown : recent[i] = history[kept - shown + i]

\* fifty-two commands were recorded and the two oldest are gone
C17_Witness ==
  /\ op = "recordCommand"
  /\ Len(issued) = 52
  /\ Len(context.commandHistory) = 50
  /\ context.commandHistory[1] = issued[3]
  /\ context.recentCommands[10] = issued[52]

\* every element of the list is an element of todoList
WithinTodoList(list) ==
  \A i \in 1..Len(list) :
    \E j \in 1..Len(Get(context, "todoList", <<>>)) : context.todoList[j] = list[i]

\* C18: in every state of the engine, every element of completedTodos and of
\* activeTodos is an element of todoList, and taskState is one of the six
\* task states.
C18_TodosWithinListStateEnumerated ==
  /\ WithinTodoList(Get(context, "activeTodos", <<>>))
  /\ WithinTodoList(Get(context, "completedTodos", <<>>))
  /\ Has(context, "taskState")
  /\ context.taskState \in {"ready_to_proceed", "blocked", "waiting_for_user",
                            "in_progress", "completed", "paused"}

\* the number of positions of the list that hold the rule
Occurrences(rule, list) == Cardinality({i \in 1..Len(list) : list[i] = rule})

\* C19: the trigger index holds exactly the active rules of the rule list
\* last supplied: each as often as the list has it, under its trigger
\* lower-cased and under no other key, and every bucket is ordered by
\* non-increasing priority.
C19_IndexHoldsActiveRules ==
  /\ \A key \in DOMAIN commandMap :
       LET bucket == commandMap[key]
       IN  /\ \A k \in 1..Len(bucket) :
                /\ bucket[k].isActive
                /\ ToLowerCase(bucket[k].trigger) = key
                /\ Occurrences(bucket[k], suppliedRules) > 0
           /\ \A a, b \in 1..Len(bucket) :
                a < b => bucket[a].priority >= bucket[b].priority
  /\ \A i \in 1..Len(suppliedRules) :
       LET r == suppliedRules[i]
       IN  r.isActive =>
             /\ ToLowerCase(r.trigger) \in DOMAIN commandMap
             /\ Occurrences(r, commandMap[ToLowerCase(r.trigger)])
                  = Occurrences(r, suppliedRules)

\* updateRules was given an inactive rule and, after it, an active rule whose
\* trigger is written in upper case
C19_Witness ==
  /\ op = "updateRules"
  /\ Len(suppliedRules) = 2
  /\ ~suppliedRules[1].isActive
  /\ suppliedRules[2].isActive
  /\ suppliedRules[2].trigger = <<"S", "H", "I", "P">>
  /\ commandMap[<<"s", "h", "i", "p">>] = <<suppliedRules[2]>>

\* positions in the supplied list of the matching rules of highest priority
TopMatchingSupplied ==
  {i \in MatchingSupplied :
     \A j \in MatchingSupplied : suppliedRules[i].priority >= suppliedRules[j].priority}

\* C20: matchRules returns rules of equal priority in the order in which the
\* supplied rule list has them, and getBestMatch returns the earliest of the
\* matching rules of highest priority.
C20_TiesKeepLoadOrder ==
  /\ op \in {"matchRules", "getBestMatch"} =>
       \A a, b \in 1..Len(matches) :
         (a < b /\ matches[a].priority = matches[b].priority) =>
           \/ matches[a] = matches[b]
           \/ \E i, j \in 1..Len(suppliedRules) :
                i < j /\ suppliedRules[i] = matches[a] /\ suppliedRules[j] = matches[b]
  /\ (op = "getBestMatch" /\ best # Null) =>
       \E i \in TopMatchingSupplied :
         /\ best.rule = suppliedRules[i]
         /\ \A j \in TopMatchingSupplied : i <= j

\* two different rules of the same priority matched and the earlier won
C20_Witness ==
  /\ op = "getBestMatch" /\ best # Null
  /\ \E i, j \in TopMatchingSupplied :
       /\ i < j
       /\ suppliedRules[i] # suppliedRules[j]
       /\ best.rule = suppliedRules[i]

\* the rule's patterns that use operator matches with a source that is not
\* a regular expression
InvalidRegexPatterns(rule) ==
  {k \in 1..Len(Get(rule, "contextPatterns", <<>>)) :
     /\ Get(rule.contextPatterns[k], "operator", "equals") = "matches"
     /\ Get(rule.contextPatterns[k], "value", <<>>) \in InvalidRegExps}

\* C21: when a rule carries a pattern with operator matches whose expected
\* string is not a valid regular expression, matchRules returns instead of
\* throwing, the rule is not among the matches, and the candidates without
\* patterns are.
C21_InvalidRegexIsNoMatch ==
  op = "matchRules" =>
    \A i \in 1..Len(suppliedRules) :
      InvalidRegexPatterns(suppliedRules[i]) # {} =>
        /\ result = Null
        /\ ~InMatches(suppliedRules[i], matches)
        /\ \A j \in 1..Len(suppliedRules) :
             (/\ ~Has(suppliedRules[j], "contextPatterns")
              /\ suppliedRules[j].isActive
              /\ ToLowerCase(suppliedRules[j].trigger) = parsed.trigger) =>
               InMatches(suppliedRules[j], matches)

\* matchRules has run over a rule whose task_state pattern has the invalid
\* source "(" with a task state present, and returned only the other rule
C21_Witness ==
  /\ op = "matchRules"
  /\ Has(context, "taskState")
  /\ suppliedRules[1].contextPatterns[1] = PatternOp("task_state", <<"(">>, "matches")
  /\ matches = <<UnconditionalRule>>

\* the context property a pattern of each kind refers to: the named field for
\* task_state, activity and file_type, the property named by the pattern's
\* value for event and custom
ReferredField(pattern) ==
  CASE pattern.type = "task_state" -> "taskState"
    [] pattern.type = "activity" -> "currentActivity"
    [] pattern.type = "file_type" -> "fileTypes"
    [] OTHER -> PropertyName(pattern.value)

\* C22: when the context property a pattern refers to is absent, a pattern
\* of any kind with a non-empty expected value fails under equals and
\* contains and holds under not_equals, so the rule carrying only that
\* pattern is returned by matchRules exactly under not_equals.
C22_AbsentFieldComparesAsEmpty ==
  op = "matchRules" =>
    \A i \in 1..Len(suppliedRules) :
      LET r == suppliedRules[i]
          ps == Get(r, "contextPatterns", <<>>)
          operator == Get(ps[1], "operator", "equals")
      IN  (/\ Len(ps) = 1
           /\ Has(ps[1], "value") /\ ps[1].value # <<>>
           /\ ~Has(context, ReferredField(ps[1]))) =>
            /\ operator \in {"equals", "contains"} => ~InMatches(r, matches)
            /\ operator = "not_equals" => InMatches(r, matches)

\* C23: a rule whose only pattern is a custom pattern is returned by
\* matchRules exactly when the comparator holds between the value stored in
\* the context under the pattern's value and 'true', as for an event pattern.
C23_CustomEvaluatedAsEvent ==
  op = "matchRules" =>
    \A i \in 1..Len(suppliedRules) :
      LET r == suppliedRules[i]
          ps == Get(r, "contextPatterns", <<>>)
      IN  (/\ Len(ps) = 1
           /\ ps[1].type = "custom"
           /\ Has(ps[1], "value")) =>
            (InMatches(r, matches) <=>
               CompareValues(ActualString(context, PropertyName(ps[1].value)),
                             <<"true">>, Get(ps[1], "operator", "equals")))

\* rule type, trigger, priority and task state pattern of the four defaults
DefaultRuleSummary ==
  << [ruleType |-> "COMMAND", trigger |-> <<"G", "o">>, priority |-> 100,
      contextPatterns |-> <<Pattern("task_state", <<"ready_to_proceed">>)>>],
     [ruleType |-> "COMMAND", trigger |-> <<"G", "o">>, priority |-> 95,
      contextPatterns |-> <<Pattern("task_state", <<"blocked">>)>>],
     [ruleType |-> "COMMAND", trigger |-> <<"D", "o", "n", "e">>, priority |-> 90,
      contextPatterns |-> <<>>],
     [ruleType |-> "PREFERENCE", trigger |-> <<"a", "l", "w", "a", "y", "s">>,
      priority |-> 50, contextPatterns |-> <<>>] >>

\* the rule list is the four defaults, in order, all active
AreDefaultRules(list) ==
  /\ Len(list) = Len(DefaultRuleSummary)
  /\ \A i \in 1..Len(list) :
       /\ Pick(list[i], {"ruleType", "trigger", "priority", "contextPatterns"})
            = DefaultRuleSummary[i]
       /\ list[i].isActive
       /\ list[i].userId = Config.userId

HasActiveRule(table) ==
  \E i \in 1..Len(table) :
    table[i].userId = Config.userId /\ Get(table[i], "isActive", FALSE)

\* C24: the step that creates the session, taken on an empty rule store,
\* leaves exactly the four default rules in the store, returns a session
\* whose rules and parser hold them, and makes "Go" and "Done" known
\* commands; taken on a store with an active rule of the user it leaves the
\* store as it is.
C24_BootstrapCreatesDefaults ==
  [][(session = Undefined /\ session' # Undefined) =>
       /\ store = <<>> =>
            /\ AreDefaultRules([i \in 1..Len(store') |-> RecordToRule(store'[i])])
            /\ AreDefaultRules(session'.rules)
            /\ AreDefaultRules(rules')
            /\ Parse(commandMap', Go).isShorthand
            /\ Parse(commandMap', Done).isShorthand
       /\ HasActiveRule(store) => store' = store]_vars

\* a session exists over a store that holds the four defaults only
C24_Witness ==
  /\ session # Undefined
  /\ AreDefaultRules([i \in 1..Len(store) |-> RecordToRule(store[i])])
  /\ AreDefaultRules(session.rules)

\* the registry holds exactly the COMMAND rules of list, each under its
\* trigger as written and in the order of list
IsRegistryOf(registry, list) ==
  /\ DOMAIN registry =
       {list[i].trigger : i \in {j \in 1..Len(list) : list[j].ruleType = "COMMAND"}}
  /\ \A t \in DOMAIN registry :
       registry[t] = SelectSeq(list, LAMBDA r : r.ruleType = "COMMAND" /\ r.trigger = t)

ActivePreferenceRules(list) ==
  {i \in 1..Len(list) : list[i].ruleType = "PREFERENCE" /\ list[i].isActive}

\* C25: a refreshRules step on an existing session leaves a handle whose
\* rules are the reloaded ones (the cached list or the store's active
\* rules), whose parser and registry are built from them and whose
\* preferences are the settings of the first active PREFERENCE rule among
\* them, or the previous preferences when there is none; the context
\* snapshot, its collection timestamp and the engine options do not change.
C25_RefreshRebuildsAndKeepsContext ==
  [][(op' = "refreshRules" /\ session # Undefined) =>
       /\ session'.rules \in
            {SelectActiveRules(store, Config.userId)}
              \cup (IF rulesCache = Undefined THEN {} ELSE {rulesCache.data})
       /\ rules' = ParserRules(session'.rules)
       /\ commandMap' = BuildCommandMap(rules')
       /\ IsRegistryOf(session'.commandRegistry, session'.rules)
       /\ LET prefs == ActivePreferenceRules(session'.rules)
          IN  IF prefs = {}
              THEN session'.preferences = session.preferences
              ELSE \E i \in prefs :
                     /\ \A j \in prefs : i <= j
                     /\ session'.preferences = session'.rules[i].action.settings
       /\ session'.userId = session.userId
       /\ context' = context
       /\ lastCollected' = lastCollected
       /\ engineOptions' = engineOptions]_vars

\* refreshRules has returned a handle without an active PREFERENCE rule whose
\* preferences are the ones of the session before
C25_Witness ==
  /\ op = "refreshRules"
  /\ session # Undefined
  /\ ActivePreferenceRules(session.rules) = {}
  /\ session.preferences # NoSettings

\* C26: once refreshRules has returned, the session's parser holds the
\* store's current active rules of the user, whoever edited the store.
C26_RefreshReflectsStore ==
  (op = "refreshRules" /\ session # Undefined) =>
    rules = ParserRules(SelectActiveRules(store, Config.userId))

\* C27: an executeAction step, whatever the action tag of the rule, leaves
\* the context the caller passed as it was, preferences included, and the
\* parser's rule list and trigger index as they were; a preference action
\* returns success = true.
C27_ExecuteActionHasNoSideEffect ==
  [][op' \in {"executeAction", "executeBest"} =>
       /\ context' = argument'.value
       /\ Has(argument'.value, "preferences") =>
            context'.preferences = argument'.value.preferences
       /\ ~Has(argument'.value, "preferences") => ~Has(context', "preferences")
       /\ rules' = rules
       /\ commandMap' = commandMap
       /\ Get(executed'.rule.action, "type", "") = "preference" =>
            result'.success = TRUE]_vars

\* executeAction has returned success for a preference action whose settings
\* are not the preferences of the context
C27_Witness ==
  /\ op = "executeAction"
  /\ Get(executed.rule.action, "type", "") = "preference"
  /\ Has(executed.rule.action, "settings")
  /\ result.success = TRUE
  /\ Get(context, "preferences", NoSettings) # executed.rule.action.settings

\* C28: on an enabled Cache no step leaves more entries than maxSize, the
\* empty string being a key like any other, and a set of a new key into a
\* full cache removes the entry inserted earliest and keeps the others.
C28_SizeBoundedOldestEvicted ==
  [][cacheConfig.enabled =>
       /\ Len(cache') <= cacheConfig.maxSize
       /\ (/\ op' = "set"
           /\ Len(cache) = cacheConfig.maxSize
           /\ ~MapHas(cache, argument'.key)) =>
            /\ ~MapHas(cache', cache[1].key)
            /\ \A i \in 2..Len(cache) : MapHas(cache', cache[i].key)]_vars

\* the expiry a set is to give its entry: ttl seconds after the set when a
\* ttl is given, config.ttl seconds after it otherwise
ExpectedExpiry(args, config, t) ==
  t + (IF Has(args, "ttl") THEN args.ttl ELSE config.ttl)

\* C29: on an enabled Cache a set stores its value under its key with the
\* expected expiry; a get returns the stored value of an entry at every time
\* up to its expiry, and null for a key without an entry or after the expiry,
\* removing the expired entry; invalidate and clear leave no entry for the
\* key.
C29_GetReturnsValueUntilExpiry ==
  [][cacheConfig.enabled =>
       /\ op' = "set" =>
            /\ MapHas(cache', argument'.key)
            /\ MapGet(cache', argument'.key).data = argument'.value
            /\ MapGet(cache', argument'.key).expiresAt =
                 ExpectedExpiry(argument', cacheConfig, now)
       /\ op' = "get" =>
            LET key == argument'.key
            IN  IF MapHas(cache, key)
                THEN IF now <= MapGet(cache, key).expiresAt
                     THEN /\ result' = [data |-> MapGet(cache, key).data]
                          /\ cache' = cache
                     ELSE /\ result' = Null
                          /\ ~MapHas(cache', key)
                ELSE result' = Null
       /\ op' = "invalidate" => ~MapHas(cache', argument'.key)
       /\ op' = "clear" => cache' = <<>>]_vars

\* C30: a Cache built with enabled = false holds no entry after any sequence
\* of calls, and each get on it returns null.
C30_DisabledCacheStoresNothing ==
  ~cacheConfig.enabled =>
    /\ cache = <<>>
    /\ op = "get" => result = Null

\* set has just returned on a disabled Cache, which holds nothing
C30_Witness ==
  /\ ~cacheConfig.enabled
  /\ op = "set"
  /\ argument.key = "key1"
  /\ cache = <<>>

\* C40: a set on a key that is present, in an enabled cache holding at most
\* maxSize entries, keeps every entry stored under another key as it is.
C40_SetOnPresentKeyKeepsOthers ==
  [][(/\ cacheConfig.enabled
      /\ op' = "set"
      /\ Len(cache) <= cacheConfig.maxSize
      /\ MapHas(cache, argument'.key)) =>
       \A i \in 1..Len(cache) :
         cache[i].key # argument'.key =>
           /\ MapHas(cache', cache[i].key)
           /\ MapGet(cache', cache[i].key) = cache[i]]_vars

\* C31 as stated: the collection timestamp changes only in collectContext
\* and updateContext; every other method leaves it as it was.
C31_OnlyCollectAndUpdateTouchTimestamp ==
  [][op' \in EngineMethods \ {"updateContext"} => lastCollected' = lastCollected]_vars

\* C31: the collection timestamp is cleared by updateContext, clearCache and
\* reset, set to the current time by a collectContext that recomputes (and
\* kept by one answered from the cache), and left as it was by setTaskState,
\* setActivity, recordCommand, updateTodoContext, applyPreferences, autoInfer
\* and getContext.
C31_TimestampFrame ==
  [][/\ op' \in {"updateContext", "clearCache", "reset"} => lastCollected' = Undefined
     /\ op' \in EngineMethods \ {"updateContext", "clearCache", "reset"} =>
          lastCollected' = lastCollected
     /\ op' = "collectContext" =>
          lastCollected' = IF probed' = Null THEN lastCollected ELSE [at |-> now]]_vars

\* a timestamp is set and clearCache has just removed it
C31_Witness ==
  /\ op = "clearCache"
  /\ lastCollected = Undefined
  /\ Has(context, "workingDirectory")

\* C32: once the session exists, the context of the session handle shows the
\* field values of the engine's context, whatever engine methods were called.
C32_HandleShowsEngineContext ==
  session # Undefined => HandleContext(handle, context) = context

\* the invocations of fn that failed before the first one that resolved
FailedBefore(r) ==
  {k \in 1..r.options.attempts : \A j \in 1..k : ~r.fn[j]}

\* what one call of retry has done so far is what the claim allows
RetryAsClaimed(r) ==
  LET n == r.options.attempts
      made == Len(r.invoked)
  IN  /\ made <= n
      /\ \A k \in 1..made : r.invoked[k] = k
      /\ \A k \in 1..made : k < made => ~r.fn[k]
      /\ r.pc = "returned" => r.fn[made] /\ r.result = FnValue(made)
      /\ r.pc = "rejected" =>
           /\ made = n
           /\ FailedBefore(r) = 1..n
           /\ r.result = FnError(n)
      /\ LET reported == {k \in 1..made : ~r.fn[k] /\ k < n}
         IN  /\ r.onRetryCalls =
                  IF r.options.onRetry
                  THEN [k \in reported |-> [error |-> FnError(k), attempt |-> k]]
                  ELSE <<>>
             /\ r.waits =
                  [k \in reported |->
                     IF Has(r.options, "backoff") /\ ~r.options.backoff
                     THEN r.options.delay
                     ELSE IF k = 1 THEN r.options.delay
                     ELSE IF k = 2 THEN 2 * r.options.delay
                     ELSE r.options.delay * 2 ^ (k - 1)]

C34_VersionHistoryConsistent ==
  /\ Cardinality(ActiveContent(projectContent)) <= 1
  /\ \A i, j \in 1..Len(projectContent) :
       i # j => projectContent[i].version # projectContent[j].version
  /\ \A i \in 1..Len(projectContent) : projectContent[i].version = i

\* C38: after initialize and any refreshes, the preferences of the session
\* handle are the preferences in the engine's context, which is where a
\* behavior action takes its fallback verbosity from.
C38_HandlePreferencesAreEnginePreferences ==
  session # Undefined => Get(context, "preferences", Undefined) = session.preferences

\* the command history and the last command before a processCommand call: a
\* call that creates the session starts from a new engine
HistoryBefore == IF session = Undefined THEN <<>> ELSE Get(context, "commandHistory", <<>>)

SaysManual(ctx) ==
  Has(ctx, "lastCommand") /\ Includes(ToLowerCase(ctx.lastCommand), <<"manual">>)

\* C39: a processCommand call appends its raw input to the history exactly
\* once, whatever the outcome; the task state it infers depends on the last
\* command of the previous call and not on its own input; matching ran on the
\* context whose last command is its own input.
C39_RecordedAfterInferenceBeforeMatching ==
  [][op' = "processCommand" =>
       /\ context'.commandHistory = Append(HistoryBefore, input')
       /\ context'.lastCommand = input'
       /\ (context'.taskState = "waiting_for_user") <=>
            (session # Undefined /\ SaysManual(context))
       /\ ~MatchRulesThrows(commandMap', parsed', context')
       /\ matches' = MatchRules(commandMap', parsed', context')]_vars

\* the call after a command saying "manual": the state is inferred from that
\* command, the history ends with the new one
C39_Witness ==
  /\ op = "processCommand"
  /\ context.taskState = "waiting_for_user"
  /\ ~SaysManual(context)
  /\ Len(context.commandHistory) = 2
  /\ context.commandHistory[2] = input

\* C37: on a store that started empty, whatever initialize() calls failed
\* while creating the defaults, a session that exists holds the four default
\* rules.
C37_SessionHoldsAllDefaults ==
  session # Undefined => AreDefaultRules(session.rules)

WritesStarted == Cardinality({i \in 1..Len(calls) : calls[i].kind \in WriteKinds})

\* C35: a loadRules call that started when every write sent so far had
\* completed returns the active rules the store holds, however those writes
\* interleaved with the loadRules calls that were in flight.
C35_LoadAfterWriteReflectsIt ==
  \A c \in 1..Len(calls) :
    (/\ calls[c].kind = "loadRules"
     /\ calls[c].pc = "done"
     /\ calls[c].writesDone = WritesStarted) =>
      calls[c].result = SelectActiveRules(store, Config.userId)

\* C36: when the calls that create a session on an empty rule store have all
\* returned, the store holds the four default rules once and the client has
\* a session.
C36_DefaultsCreatedOnce ==
  (/\ calls # <<>>
   /\ \A c \in 1..Len(calls) : calls[c].pc = "done") =>
     /\ AreDefaultRules([i \in 1..Len(store) |-> RecordToRule(store[i])])
     /\ session # Undefined

====
